---- MODULE Spec2Model ----
(***************************************************************************)
(* Codec of the asset-registry container: the packed name header, the      *)
(* names batch and the store data, modelled from the Rust sources.         *)
(*                                                                         *)
(* Representation.                                                         *)
(*   byte      a number in 0..255                                          *)
(*   u16       a number in 0..65535                                        *)
(*   u32, u64  a tuple of 4 (8) base-256 digits, most significant first,   *)
(*             as the hexadecimal literal is written in the source         *)
(*             (0x12345679 is <<18, 52, 86, 121>>); the little-endian      *)
(*             writers reverse it.  Where the code computes with a u32     *)
(*             (`as usize`, `+`, `-`, `<`) the model converts with         *)
(*             U32ToNat / NatToU32.                                        *)
(*   String    a sequence of Unicode scalar values; as_bytes, len,         *)
(*             from_utf8, encode_utf16, from_utf16 are the UTF-8 and       *)
(*             UTF-16 transformations below.                               *)
(*   EResult   [ok |-> TRUE, val |-> v] or [ok |-> FALSE, err |-> tag];    *)
(*             a panic is the error tag "panic".                           *)
(***************************************************************************)
EXTENDS Integers, Sequences, FiniteSets, TLC

VARIABLES
    pc,       \* position of the running operation
    self,     \* the in-memory value handed to write (or the description of a crafted input)
    buf,      \* the bytes of the Cursor: what write produced, what read consumes
    cursor,   \* the reader's position in buf (bytes consumed so far)
    locals,   \* the local variables of the running read
    result    \* what the operation returned

vars == <<pc, self, buf, cursor, locals, result>>

None == [ok |-> FALSE, val |-> <<>>, err |-> "none"]
Ok(v) == [ok |-> TRUE, val |-> v, err |-> ""]
Err(tag) == [ok |-> FALSE, val |-> <<>>, err |-> tag]
NoLocals == [stage |-> "none"]

(***************************************************************************)
(* Sequences                                                               *)
(***************************************************************************)
Reverse(s) == [i \in 1..Len(s) |-> s[Len(s) + 1 - i]]

Repeat(x, n) == [i \in 1..n |-> x]

RECURSIVE Concat(_)
\* Flattening of a sequence of sequences, by halving (logarithmic depth).
Concat(ss) ==
    IF Len(ss) = 0 THEN <<>>
    ELSE IF Len(ss) = 1 THEN ss[1]
    ELSE LET m == Len(ss) \div 2
         IN Concat(SubSeq(ss, 1, m)) \o Concat(SubSeq(ss, m + 1, Len(ss)))

RECURSIVE SumSeq(_)
SumSeq(s) ==
    IF Len(s) = 0 THEN 0
    ELSE IF Len(s) = 1 THEN s[1]
    ELSE LET m == Len(s) \div 2
         IN SumSeq(SubSeq(s, 1, m)) + SumSeq(SubSeq(s, m + 1, Len(s)))

\* All sequences over S of length at most n.
SeqsUpTo(S, n) == UNION {[1..k -> S] : k \in 0..n}

(***************************************************************************)
(* Integers on the wire (byteorder::{ReadBytesExt, WriteBytesExt}, LE)     *)
(***************************************************************************)
Byte == 0..255

NatToU32(n) ==
    <<(n \div 16777216) % 256, (n \div 65536) % 256, (n \div 256) % 256, n % 256>>

\* Defined for digits whose value is below 2^31.
U32ToNat(d) == ((d[1] * 256 + d[2]) * 256 + d[3]) * 256 + d[4]

U64Of(hi, lo) == hi \o lo

write_u8(b) == <<b>>
write_u16_LE(n) == <<n % 256, n \div 256>>
write_u32_LE(d) == Reverse(d)
write_u64_LE(d) == Reverse(d)

\* A read at position p of buffer b: the value and the new position, or the
\* UnexpectedEof of the underlying reader.
ReadOk(v, p) == [ok |-> TRUE, val |-> v, pos |-> p, err |-> ""]
ReadErr(tag, p) == [ok |-> FALSE, val |-> <<>>, pos |-> p, err |-> tag]

read_exact(b, p, n) ==
    IF n <= Len(b) - p THEN ReadOk(SubSeq(b, p + 1, p + n), p + n)
    ELSE ReadErr("UnexpectedEof", p)

read_u8(b, p) ==
    LET r == read_exact(b, p, 1)
    IN IF r.ok THEN ReadOk(r.val[1], r.pos) ELSE r

read_u16_LE(b, p) ==
    LET r == read_exact(b, p, 2)
    IN IF r.ok THEN ReadOk(r.val[1] + 256 * r.val[2], r.pos) ELSE r

read_u32_LE(b, p) ==
    LET r == read_exact(b, p, 4)
    IN IF r.ok THEN ReadOk(Reverse(r.val), r.pos) ELSE r

read_u64_LE(b, p) ==
    LET r == read_exact(b, p, 8)
    IN IF r.ok THEN ReadOk(Reverse(r.val), r.pos) ELSE r

\* A collector that drops an element that failed and goes on with the next.
read_array_SkipFailed(length, p, f) ==
    LET elems[k \in 0..length] ==
            IF k = 0 THEN ReadOk(<<>>, p)
            ELSE LET rest == elems[k - 1]
                     r == f[rest.pos]
                 IN IF r.ok THEN ReadOk(Append(rest.val, r.val), r.pos)
                    ELSE ReadOk(rest.val, r.pos)
    IN elems[length]

\* (0..length).map(|_| f(reader)).collect(): the elements in order, stopping at
\* the first failure.  f[q] is what f reads with the reader at position q.
read_array(length, p, f) ==
    LET elems[k \in 0..length] ==
            IF k = 0 THEN ReadOk(<<>>, p)
            ELSE LET rest == elems[k - 1]
                 IN IF ~rest.ok THEN rest
                    ELSE LET r == f[rest.pos]
                         IN IF r.ok THEN ReadOk(Append(rest.val, r.val), r.pos) ELSE r
    IN elems[length]

\* The positions of a reader over the buffer b.
Positions(b) == 0..Len(b)

(***************************************************************************)
(* Rust strings: UTF-8 and UTF-16                                          *)
(***************************************************************************)
\* char::encode_utf8 of one scalar value.
Utf8Char(c) ==
    IF c < 128 THEN <<c>>
    ELSE IF c < 2048 THEN <<192 + (c \div 64), 128 + (c % 64)>>
    ELSE IF c < 65536
         THEN <<224 + (c \div 4096), 128 + ((c \div 64) % 64), 128 + (c % 64)>>
    ELSE <<240 + (c \div 262144), 128 + ((c \div 4096) % 64), 128 + ((c \div 64) % 64),
           128 + (c % 64)>>

\* str::as_bytes: the UTF-8 bytes of the string.
as_bytes(s) == Concat([i \in 1..Len(s) |-> Utf8Char(s[i])])

\* str::len: the number of UTF-8 bytes.
str_len(s) ==
    SumSeq([i \in 1..Len(s) |->
        IF s[i] < 128 THEN 1 ELSE IF s[i] < 2048 THEN 2 ELSE IF s[i] < 65536 THEN 3 ELSE 4])

IsCont(b) == b >= 128 /\ b <= 191

\* The scalar value that starts at the first byte of b when b is exactly one
\* well-formed UTF-8 sequence (no overlong form, no surrogate, at most U+10FFFF).
Utf8One(b) ==
    LET n == Len(b)
    IN IF n = 1 /\ b[1] < 128 THEN Ok(<<b[1]>>)
       ELSE IF n = 2 /\ b[1] >= 194 /\ b[1] <= 223 /\ IsCont(b[2])
            THEN Ok(<<(b[1] - 192) * 64 + (b[2] - 128)>>)
       ELSE IF n = 3 /\ b[1] >= 224 /\ b[1] <= 239 /\ IsCont(b[2]) /\ IsCont(b[3])
               /\ (b[1] = 224 => b[2] >= 160) /\ (b[1] = 237 => b[2] <= 159)
            THEN Ok(<<((b[1] - 224) * 64 + (b[2] - 128)) * 64 + (b[3] - 128)>>)
       ELSE IF n = 4 /\ b[1] >= 240 /\ b[1] <= 244
               /\ IsCont(b[2]) /\ IsCont(b[3]) /\ IsCont(b[4])
               /\ (b[1] = 240 => b[2] >= 144) /\ (b[1] = 244 => b[2] <= 143)
            THEN Ok(<<(((b[1] - 240) * 64 + (b[2] - 128)) * 64 + (b[3] - 128)) * 64
                      + (b[4] - 128)>>)
       ELSE Err("FromUtf8Error")

Min(a, b) == IF a <= b THEN a ELSE b

Least(S) == CHOOSE i \in S : \A j \in S : i <= j

RECURSIVE from_utf8(_)
\* String::from_utf8: the string, or an error when the bytes are not UTF-8.  A
\* scalar value starts exactly at the bytes that are no continuation byte and
\* has at most three continuation bytes, so the bytes are cut at the first
\* such byte at or after the middle and the halves are decoded (logarithmic
\* depth).
from_utf8(b) ==
    LET n == Len(b)
        mid == (n \div 2) + 1
        window == IF n <= 8 THEN 2..n ELSE mid..Min(mid + 3, n)
        starts == {i \in window : ~IsCont(b[i])}
    IN IF n = 0 THEN Ok(<<>>)
       ELSE IF starts = {} THEN Utf8One(b)
       ELSE LET cut == Least(starts)
                l == from_utf8(SubSeq(b, 1, cut - 1))
                r == from_utf8(SubSeq(b, cut, n))
            IN IF l.ok /\ r.ok THEN Ok(l.val \o r.val) ELSE Err("FromUtf8Error")

\* str::encode_utf16 of one scalar value.
Utf16Char(c) ==
    IF c < 65536 THEN <<c>>
    ELSE <<55296 + ((c - 65536) \div 1024), 56320 + ((c - 65536) % 1024)>>

encode_utf16(s) == Concat([i \in 1..Len(s) |-> Utf16Char(s[i])])

IsHighSurrogate(u) == u >= 55296 /\ u <= 56319
IsLowSurrogate(u) == u >= 56320 /\ u <= 57343

RECURSIVE from_utf16(_)
\* String::from_utf16: the string, or an error on an unpaired surrogate.
from_utf16(u) ==
    IF Len(u) = 0 THEN Ok(<<>>)
    ELSE IF IsLowSurrogate(u[1]) THEN Err("FromUtf16Error")
    ELSE IF IsHighSurrogate(u[1])
         THEN IF Len(u) >= 2 /\ IsLowSurrogate(u[2])
              THEN LET rest == from_utf16(SubSeq(u, 3, Len(u)))
                   IN IF rest.ok
                      THEN Ok(<<65536 + (u[1] - 55296) * 1024 + (u[2] - 56320)>> \o rest.val)
                      ELSE rest
              ELSE Err("FromUtf16Error")
    ELSE LET rest == from_utf16(SubSeq(u, 2, Len(u)))
         IN IF rest.ok THEN Ok(<<u[1]>> \o rest.val) ELSE rest

\* String::from_utf16le(&[u8]): an odd number of bytes is an error, otherwise the
\* little-endian units are decoded as UTF-16.
from_utf16le(b) ==
    IF Len(b) % 2 # 0 THEN Err("FromUtf16Error")
    ELSE from_utf16([i \in 1..(Len(b) \div 2) |-> b[2 * i - 1] + 256 * b[2 * i]])

(***************************************************************************)
(* SerializedNameHeader (serialized_name_header.rs)                        *)
(***************************************************************************)
SerializedNameHeader(is_utf16, len) == [is_utf16 |-> is_utf16, len |-> len]

\* size_of::<u16>() and size_of::<u8>()
n_bytes(h) == IF h.is_utf16 THEN h.len * 2 ELSE h.len * 1

\* x | y for a one-bit mask m = 2^k: sets bit k of x.
BitOr(m, x) == IF (x \div m) % 2 = 1 THEN x ELSE x + m

\* A header writer that shifts the flag to bit 6.
SerializedNameHeader_write_FlagBit6(h) ==
    write_u8(((IF h.is_utf16 THEN 64 ELSE 0) + (h.len \div 256)) % 256)
    \o write_u8(h.len % 256)

\* b0 = ((is_utf16 as u16) << 7 | len >> 8) as u8;  b1 = len as u8
SerializedNameHeader_write(h) ==
    LET flag == IF h.is_utf16 THEN 128 ELSE 0
        b0 == (IF flag = 0 THEN h.len \div 256 ELSE BitOr(flag, h.len \div 256)) % 256
        b1 == h.len % 256
    IN write_u8(b0) \o write_u8(b1)

\* packed = read_u16::<LE>();  bytes = packed.to_le_bytes()
SerializedNameHeader_read(b, p) ==
    LET r == read_u16_LE(b, p)
    IN IF ~r.ok THEN r
       ELSE LET bytes == <<r.val % 256, r.val \div 256>>
            IN ReadOk(SerializedNameHeader((bytes[1] \div 128) # 0,
                                           (bytes[1] % 128) * 256 + bytes[2]),
                      r.pos)

(***************************************************************************)
(* A packed header on its own: write, then read what was written           *)
(***************************************************************************)
U16Max == 65535

InitHeader ==
    /\ pc = "SerializedNameHeader_write"
    /\ self \in [is_utf16 : BOOLEAN, len : 0..U16Max]
    /\ buf = <<>>
    /\ cursor = 0
    /\ locals = NoLocals
    /\ result = None

SNH_Write ==
    /\ pc = "SerializedNameHeader_write"
    /\ buf' = buf \o SerializedNameHeader_write(self)
    /\ pc' = "SerializedNameHeader_read"
    /\ UNCHANGED <<self, cursor, locals, result>>

SNH_Read ==
    /\ pc = "SerializedNameHeader_read"
    /\ LET r == SerializedNameHeader_read(buf, cursor)
       IN /\ result' = IF r.ok THEN Ok(r.val) ELSE Err(r.err)
          /\ cursor' = r.pos
    /\ pc' = "SerializedNameHeader_done"
    /\ UNCHANGED <<self, buf, locals>>

\* Two arbitrary bytes handed to the header decoder.
InitHeaderBytes ==
    /\ pc = "SerializedNameHeader_read"
    /\ buf \in [1..2 -> Byte]
    /\ self = buf
    /\ cursor = 0
    /\ locals = NoLocals
    /\ result = None

NextHeader == SNH_Write \/ SNH_Read

SpecHeader == InitHeader /\ [][NextHeader]_vars

(***************************************************************************)
(* NamesBatch (names_batch.rs)                                             *)
(***************************************************************************)
NamesBatch(hash_version, hashes, headers, strings) ==
    [hash_version |-> hash_version, hashes |-> hashes, headers |-> headers,
     strings |-> strings]

\* A writer that compares the hashes with the headers only.
NamesBatch_write_asserts_HashesOnly(nb) ==
    Len(nb.hashes) = Len(nb.headers)

\* The two assert_eq! on entry: a panic before anything is written.
NamesBatch_write_asserts(nb) ==
    /\ Len(nb.hashes) = Len(nb.headers)
    /\ Len(nb.headers) = Len(nb.strings)

\* A writer that leaves the terminators out of the total.
NamesBatch_string_bytes_NoTerminator(nb) ==
    SumSeq([i \in 1..Len(nb.strings) |-> str_len(nb.strings[i])])

\* self.strings.iter().map(|s| (s.len() + 1) as u32).sum::<u32>()
NamesBatch_string_bytes(nb) ==
    SumSeq([i \in 1..Len(nb.strings) |-> str_len(nb.strings[i]) + 1])

\* The bytes NamesBatch::write hands to the writer once the assertions hold.
NamesBatch_write(nb) ==
    write_u32_LE(NatToU32(Len(nb.strings)))
    \o write_u32_LE(NatToU32(NamesBatch_string_bytes(nb)))
    \o write_u64_LE(nb.hash_version)
    \o Concat([i \in 1..Len(nb.hashes) |-> write_u64_LE(nb.hashes[i])])
    \o Concat([i \in 1..Len(nb.headers) |-> SerializedNameHeader_write(nb.headers[i])])
    \o Concat([i \in 1..Len(nb.strings) |-> as_bytes(nb.strings[i]) \o write_u8(0)])

\* count, expected_string_bytes, hash_version, hashes and headers.
NamesBatch_read_prefix(b, p) ==
    LET count == read_u32_LE(b, p)
    IN IF ~count.ok THEN count
       ELSE LET expected_string_bytes == read_u32_LE(b, count.pos)
       IN IF ~expected_string_bytes.ok THEN expected_string_bytes
       ELSE LET hash_version == read_u64_LE(b, expected_string_bytes.pos)
       IN IF ~hash_version.ok THEN hash_version
       ELSE LET hashes == read_array(U32ToNat(count.val), hash_version.pos,
                                     [q \in Positions(b) |-> read_u64_LE(b, q)])
       IN IF ~hashes.ok THEN hashes
       ELSE LET headers == read_array(U32ToNat(count.val), hashes.pos,
                           [q \in Positions(b) |-> SerializedNameHeader_read(b, q)])
       IN IF ~headers.ok THEN headers
       ELSE ReadOk([count |-> U32ToNat(count.val),
                    expected_string_bytes |-> U32ToNat(expected_string_bytes.val),
                    hash_version |-> hash_version.val,
                    hashes |-> hashes.val,
                    headers |-> headers.val,
                    strings |-> <<>>,
                    processed_string_bytes |-> 0],
                   headers.pos)

\* The two checks at the head of an iteration of `for header in &headers`:
\* the error they raise, or "" when the entry may be read.
NamesBatch_check_header(header, processed_string_bytes, expected_string_bytes) ==
    IF header.len = 0 THEN "ZeroLengthString"
    ELSE IF processed_string_bytes + n_bytes(header) > expected_string_bytes
         THEN "MoreStringBytesThanExpected"
    ELSE ""

\* The string the header announces.  In the wide branch buf starts as len - 1
\* zero units and the units read are pushed after them.
NamesBatch_read_units(header, b, p) ==
    IF header.is_utf16
    THEN LET units == read_array(header.len - 1, p,
                                   [q \in Positions(b) |-> read_u16_LE(b, q)])
         IN IF ~units.ok THEN units
            ELSE LET nul == read_u16_LE(b, units.pos)
            IN IF ~nul.ok THEN nul
            ELSE IF nul.val # 0 THEN ReadErr("ExpectedNul", nul.pos)
            ELSE LET s == from_utf16(Repeat(0, header.len - 1) \o units.val)
            IN IF s.ok THEN ReadOk(s.val, nul.pos) ELSE ReadErr(s.err, nul.pos)
    ELSE LET bytes == read_exact(b, p, header.len - 1)
         IN IF ~bytes.ok THEN bytes
            ELSE LET nul == read_u8(b, bytes.pos)
            IN IF ~nul.ok THEN nul
            ELSE IF nul.val # 0 THEN ReadErr("ExpectedNul", nul.pos)
            ELSE LET s == from_utf8(bytes.val)
            IN IF s.ok THEN ReadOk(s.val, nul.pos) ELSE ReadErr(s.err, nul.pos)

\* A decoder that takes a zero header for the empty string.
NamesBatch_read_string_ZeroAccepted(header, processed, expected, b, p) ==
    IF header.len = 0 THEN ReadOk(<<>>, p)
    ELSE IF processed + n_bytes(header) > expected
         THEN ReadErr("MoreStringBytesThanExpected", p)
    ELSE NamesBatch_read_units(header, b, p)

\* One iteration of `for header in &headers`.
NamesBatch_read_string(header, processed_string_bytes, expected_string_bytes, b, p) ==
    LET e == NamesBatch_check_header(header, processed_string_bytes,
                                     expected_string_bytes)
    IN IF e # "" THEN ReadErr(e, p) ELSE NamesBatch_read_units(header, b, p)

\* A decoder that forgets the check after the loop.
NamesBatch_read_finish_Unchecked(l) ==
    Ok(NamesBatch(l.hash_version, l.hashes, l.headers, l.strings))

\* The check after the loop and the value returned.
NamesBatch_read_finish(l) ==
    IF l.processed_string_bytes # l.expected_string_bytes
    THEN Err("StringBytesMismatch")
    ELSE Ok(NamesBatch(l.hash_version, l.hashes, l.headers, l.strings))

NB_Write ==
    /\ pc = "NamesBatch_write"
    /\ IF NamesBatch_write_asserts(self)
       THEN /\ buf' = buf \o NamesBatch_write(self)
            /\ pc' = "NamesBatch_read"
            /\ result' = result
       ELSE /\ buf' = buf
            /\ pc' = "NamesBatch_done"
            /\ result' = Err("panic")
    /\ UNCHANGED <<self, cursor, locals>>

NB_ReadPrefix ==
    /\ pc = "NamesBatch_read"
    /\ LET r == NamesBatch_read_prefix(buf, cursor)
       IN /\ cursor' = r.pos
          /\ IF r.ok
             THEN /\ locals' = r.val
                  /\ pc' = "NamesBatch_read_strings"
                  /\ result' = result
             ELSE /\ locals' = locals
                  /\ pc' = "NamesBatch_done"
                  /\ result' = Err(r.err)
    /\ UNCHANGED <<self, buf>>

NB_ReadString ==
    /\ pc = "NamesBatch_read_strings"
    /\ Len(locals.strings) < Len(locals.headers)
    /\ LET header == locals.headers[Len(locals.strings) + 1]
           r == NamesBatch_read_string(header, locals.processed_string_bytes,
                                       locals.expected_string_bytes, buf, cursor)
       IN /\ cursor' = r.pos
          /\ IF r.ok
             THEN /\ locals' = [locals EXCEPT
                        !.strings = Append(@, r.val),
                        !.processed_string_bytes = @ + n_bytes(header)]
                  /\ pc' = pc
                  /\ result' = result
             ELSE /\ locals' = locals
                  /\ pc' = "NamesBatch_done"
                  /\ result' = Err(r.err)
    /\ UNCHANGED <<self, buf>>

NB_Finish ==
    /\ pc = "NamesBatch_read_strings"
    /\ Len(locals.strings) = Len(locals.headers)
    /\ result' = NamesBatch_read_finish(locals)
    /\ pc' = "NamesBatch_done"
    /\ UNCHANGED <<self, buf, cursor, locals>>

(***************************************************************************)
(* Inputs of the names batch                                               *)
(***************************************************************************)
MaxNames == 2
MaxUnits == 2
DeclaredSlack == 1

\* "", "a", "é" (two UTF-8 bytes), "a🙇" (five UTF-8 bytes, three UTF-16 units)
StringValues == {<<>>, <<97>>, <<233>>, <<97, 128583>>}

\* 2^15 - 1 times "a": with its terminator the unit count no longer fits 15 bits.
LongString == Repeat(97, 2^15 - 1)

\* 0x0000_000i_DEAD_BEEF for i = 0, 1, ...: distinct, so order is observable.
HashAt(i) == <<0, 0, 0, i - 1, 222, 173, 190, 239>>

HashVersions == {<<0, 0, 0, 0, 0, 0, 0, 0>>, <<0, 0, 0, 0, 222, 173, 190, 239>>}

\* The headers a caller may pair with string s: the narrow header of its UTF-8
\* bytes plus terminator, a wide header of its UTF-16 units plus terminator, a
\* narrow header one unit too long, and the zero header.
HeadersFor(s) ==
    {SerializedNameHeader(FALSE, str_len(s) + 1),
     SerializedNameHeader(TRUE, Len(encode_utf16(s)) + 1),
     SerializedNameHeader(FALSE, str_len(s) + 2),
     SerializedNameHeader(FALSE, 0)}

NameEntries ==
    UNION {{[string |-> s, header |-> h] : h \in HeadersFor(s)} : s \in StringValues}

BatchOf(hv, es) ==
    NamesBatch(hv, [i \in 1..Len(es) |-> HashAt(i)],
               [i \in 1..Len(es) |-> es[i].header],
               [i \in 1..Len(es) |-> es[i].string])

DropLast(s) == SubSeq(s, 1, Len(s) - 1)

\* Batches whose three sequences have the same length ...
MatchedBatches ==
    {BatchOf(hv, es) : hv \in HashVersions, es \in SeqsUpTo(NameEntries, MaxNames)}
    \cup {BatchOf(<<0, 0, 0, 0, 0, 0, 0, 0>>,
                  <<[string |-> LongString,
                     header |-> SerializedNameHeader(FALSE, str_len(LongString) + 1)]>>)}

\* ... and batches where one of them is one short.
MismatchedBatches ==
    UNION {{[nb EXCEPT !.hashes = DropLast(@)],
            [nb EXCEPT !.headers = DropLast(@)],
            [nb EXCEPT !.strings = DropLast(@)]} :
           nb \in {m \in MatchedBatches : Len(m.strings) \in 1..MaxNames}}

\* A crafted entry of an input buffer: a header and the bytes that stand where
\* its string should: len - 1 units "a" and a zero unit, or len units "a".
UnitBytes(is_utf16, u) == IF is_utf16 THEN write_u16_LE(u) ELSE write_u8(u)

CraftedImage(h, terminated) ==
    Concat([i \in 1..h.len |->
        UnitBytes(h.is_utf16, IF terminated /\ i = h.len THEN 0 ELSE 97)])

CraftedEntries ==
    {[header |-> SerializedNameHeader(w, n), terminated |-> t] :
        w \in BOOLEAN, n \in 0..MaxUnits, t \in BOOLEAN}

\* The header as it stands on the wire: flag in bit 7 of the first byte, the
\* count big-endian in the remaining 15 bits.
CraftedHeaderBytes(h) ==
    <<(IF h.is_utf16 THEN 128 ELSE 0) + (h.len \div 256), h.len % 256>>

CraftedBatchBytes(c) ==
    Reverse(NatToU32(Len(c.entries)))
    \o Reverse(NatToU32(c.expected_string_bytes))
    \o Reverse(c.hash_version)
    \o Concat([i \in 1..Len(c.entries) |-> Reverse(HashAt(i))])
    \o Concat([i \in 1..Len(c.entries) |-> CraftedHeaderBytes(c.entries[i].header)])
    \o Concat([i \in 1..Len(c.entries) |->
                  CraftedImage(c.entries[i].header, c.entries[i].terminated)])

CraftedSum(es) == SumSeq([i \in 1..Len(es) |-> n_bytes(es[i].header)])

CraftedBatches ==
    {[entries |-> es, expected_string_bytes |-> CraftedSum(es) + d,
      hash_version |-> <<0, 0, 0, 0, 222, 173, 190, 239>>, cut |-> k] :
        es \in SeqsUpTo(CraftedEntries, MaxNames),
        d \in (0 - DeclaredSlack)..DeclaredSlack,
        k \in 0..1}

InitNamesEncode ==
    /\ pc = "NamesBatch_write"
    /\ self \in MatchedBatches \cup MismatchedBatches
    /\ buf = <<>>
    /\ cursor = 0
    /\ locals = NoLocals
    /\ result = None

\* An input that no writer produced: crafted bytes, possibly cut one byte short.
InitNamesCrafted ==
    /\ pc = "NamesBatch_read"
    /\ self \in {c \in CraftedBatches : c.expected_string_bytes >= 0}
    /\ buf = LET b == CraftedBatchBytes(self) IN SubSeq(b, 1, Len(b) - self.cut)
    /\ cursor = 0
    /\ locals = NoLocals
    /\ result = None

InitNames == InitNamesEncode \/ InitNamesCrafted

NextNames == NB_Write \/ NB_ReadPrefix \/ NB_ReadString \/ NB_Finish

SpecNames == InitNames /\ [][NextNames]_vars

\* The packed header and the names batch: the header decoder on every bit
\* pattern, beside the names batch decoder.
InitPacked == InitHeaderBytes \/ InitNames

NextPacked == SNH_Read \/ NextNames

SpecPacked == InitPacked /\ [][NextPacked]_vars

(***************************************************************************)
(* Properties of the packed header and the names batch                     *)
(***************************************************************************)
IsBatch(v) == "hashes" \in DOMAIN v
IsCrafted(v) == "entries" \in DOMAIN v
HasPrefix == "headers" \in DOMAIN locals

\* Where the string blob starts: count, total, hash version, hashes, headers.
StringsStart(count) == 4 + 4 + 8 + 8 * count + 2 * count

NarrowMatching(nb) ==
    /\ NamesBatch_write_asserts(nb)
    /\ \A i \in 1..Len(nb.headers) :
          /\ ~nb.headers[i].is_utf16
          /\ nb.headers[i].len = str_len(nb.strings[i]) + 1

\* C1: a batch with sequences of equal length and narrow headers whose len is
\* the UTF-8 byte length of the string plus 1 is read back, from the bytes
\* written for it, as an equal batch.
C1_NamesBatchRoundTrip ==
    (pc = "NamesBatch_done" /\ IsBatch(self) /\ NarrowMatching(self))
        => result = Ok(self)

\* C3: NamesBatch::read succeeds only when the headers' byte widths sum to the
\* declared total; the bytes consumed from the string blob are the running
\* total, which never passes the declared total; and the entry that would pass
\* it fails with the cursor still at the start of its string bytes.
C3_ByteAccounting ==
    (pc \in {"NamesBatch_read_strings", "NamesBatch_done"} /\ HasPrefix) =>
        /\ locals.processed_string_bytes <= locals.expected_string_bytes
        /\ pc = "NamesBatch_read_strings"
              => cursor = StringsStart(locals.count) + locals.processed_string_bytes
        /\ result.err = "MoreStringBytesThanExpected" =>
              /\ Len(locals.strings) < locals.count
              /\ locals.processed_string_bytes
                    + n_bytes(locals.headers[Len(locals.strings) + 1])
                 > locals.expected_string_bytes
              /\ cursor = StringsStart(locals.count) + locals.processed_string_bytes
        /\ result.ok =>
              /\ SumSeq([i \in 1..locals.count |-> n_bytes(locals.headers[i])])
                 = locals.expected_string_bytes
              /\ IsCrafted(self) => self.expected_string_bytes = CraftedSum(self.entries)
        /\ (pc = "NamesBatch_done" /\ IsCrafted(self)
            /\ self.expected_string_bytes # CraftedSum(self.entries)) => ~result.ok

\* C3 witness: the second entry would pass the declared total and is refused
\* after the first was read.
C3_Witness ==
    /\ pc = "NamesBatch_done"
    /\ IsCrafted(self)
    /\ self.expected_string_bytes = CraftedSum(self.entries) - 1
    /\ result.err = "MoreStringBytesThanExpected"
    /\ Len(locals.strings) = 1

TestBatch ==
    NamesBatch(<<0, 0, 0, 0, 0, 0, 0, 0>>, <<<<0, 0, 0, 0, 222, 173, 190, 239>>>>,
               <<SerializedNameHeader(FALSE, 2)>>, <<<<97>>>>)

\* C4 as stated: the batch {hash 0xDEADBEEF, narrow header of 2 units, "a"} is
\* written as 24 bytes with a total string-byte count of 3.
C4_ScenarioAsStated ==
    (pc = "NamesBatch_read" /\ self = TestBatch) =>
        /\ Len(buf) = 24
        /\ SubSeq(buf, 5, 8) = <<3, 0, 0, 0>>

\* C4: the batch {hash 0xDEADBEEF, narrow header of 2 units, "a"} is written as
\* the 28 bytes 01 00 00 00 | 02 00 00 00 | 00 x 8 | EF BE AD DE 00 00 00 00 |
\* 00 02 | 61 00: count 1, total string bytes 2, hash version 0, the hash, the
\* packed header, "a\0".
C4_ScenarioBytes ==
    (pc = "NamesBatch_read" /\ self = TestBatch) =>
        buf = <<1, 0, 0, 0,  2, 0, 0, 0,  0, 0, 0, 0, 0, 0, 0, 0,
                239, 190, 173, 222, 0, 0, 0, 0,  0, 2,  97, 0>>

C4_Witness ==
    /\ pc = "NamesBatch_read"
    /\ self = TestBatch
    /\ Len(buf) = 28

\* C5: for both widths and every unit count in 1..2^15 - 1 the header read
\* from the two bytes written is the header written; the flag is bit 7 of the
\* first byte, the count is its low 7 bits followed by the second byte.
C5_HeaderRoundTrip ==
    (pc # "SerializedNameHeader_write" /\ self.len >= 1 /\ self.len <= 2^15 - 1) =>
        /\ Len(buf) = 2
        /\ (buf[1] \div 128 = 1) = self.is_utf16
        /\ (buf[1] % 128) * 256 + buf[2] = self.len
        /\ pc = "SerializedNameHeader_done" => result = Ok(self)

\* C5 witness: the wide header of 0x1234 units, written and read back.
C5_Witness ==
    /\ pc = "SerializedNameHeader_done"
    /\ self = SerializedNameHeader(TRUE, 4660)
    /\ buf = <<146, 52>>
    /\ result.ok

\* C6: the header decoder accepts every two bytes, a zero unit count included;
\* the names batch decoder returns an error for every input with a header of
\* zero units, narrow or wide, whatever total the input declares.
C6_ZeroCountRejectedByBatch ==
    /\ pc = "SerializedNameHeader_done" =>
          /\ result.ok
          /\ result.val.len = (self[1] % 128) * 256 + self[2]
    /\ (pc = "NamesBatch_done" /\ IsCrafted(self)
        /\ \E i \in 1..Len(self.entries) : self.entries[i].header.len = 0)
          => ~result.ok
    /\ (pc = "NamesBatch_done" /\ HasPrefix
        /\ \E i \in 1..Len(locals.headers) : locals.headers[i].len = 0)
          => ~result.ok

\* C6 witness: a crafted batch whose second header is the wide header of zero
\* units, with a matching total, refused at that header.
C6_Witness ==
    /\ pc = "NamesBatch_done"
    /\ IsCrafted(self)
    /\ Len(self.entries) = 2
    /\ self.entries[2].header = SerializedNameHeader(TRUE, 0)
    /\ self.expected_string_bytes = CraftedSum(self.entries)
    /\ result.err = "ZeroLengthString"
    /\ Len(locals.strings) = 1

(***************************************************************************)
(* Leaf records (unreal_types/)                                            *)
(***************************************************************************)
FName(index, number) == [index |-> index, number |-> number]

FName_write(n) == write_u32_LE(n.index) \o write_u32_LE(n.number)

FName_read(b, p) ==
    LET index == read_u32_LE(b, p)
    IN IF ~index.ok THEN index
       ELSE LET number == read_u32_LE(b, index.pos)
            IN IF ~number.ok THEN number
               ELSE ReadOk(FName(index.val, number.val), number.pos)

FAssetRegistryExportPath(class, object, package) ==
    [class |-> class, object |-> object, package |-> package]

FAssetRegistryExportPath_write(e) ==
    FName_write(e.class) \o FName_write(e.object) \o FName_write(e.package)

FAssetRegistryExportPath_read(b, p) ==
    LET class == FName_read(b, p)
    IN IF ~class.ok THEN class
       ELSE LET object == FName_read(b, class.pos)
       IN IF ~object.ok THEN object
       ELSE LET package == FName_read(b, object.pos)
       IN IF ~package.ok THEN package
       ELSE ReadOk(FAssetRegistryExportPath(class.val, object.val, package.val),
                   package.pos)

\* value is the packed FValueId, kept as a plain u32.
FNumberedPair(key, value) == [key |-> key, value |-> value]

FNumberedPair_write(pr) == FName_write(pr.key) \o write_u32_LE(pr.value)

FNumberedPair_read(b, p) ==
    LET key == FName_read(b, p)
    IN IF ~key.ok THEN key
       ELSE LET value == read_u32_LE(b, key.pos)
            IN IF ~value.ok THEN value
               ELSE ReadOk(FNumberedPair(key.val, value.val), value.pos)

\* n & 0b111 of a packed value.
ValueTypeBits(value) == value[4] % 8

\* A conversion that forgets the terminating NUL.
FText_from_Unterminated(s) == [raw |-> as_bytes(s)]

\* FText::from(String): the UTF-8 bytes and a terminating NUL.
FText_from(s) == [raw |-> as_bytes(s) \o <<0>>]

FText_write(t) == write_u32_LE(NatToU32(Len(t.raw))) \o t.raw

\* isize::MAX as u32 on a 64-bit target.
ISIZE_MAX_AS_U32 == <<255, 255, 255, 255>>

\* len >= isize::MAX as u32 is refused; buf.last().unwrap() panics on an empty
\* buffer.  A length of 2^31 or more cannot be served by the bounded buffers.
FText_read(b, p) ==
    LET len == read_u32_LE(b, p)
    IN IF ~len.ok THEN len
       ELSE IF len.val = ISIZE_MAX_AS_U32 THEN ReadErr("FTextTooLarge", len.pos)
       ELSE IF len.val[1] >= 128 THEN ReadErr("UnexpectedEof", len.pos)
       ELSE LET raw == read_exact(b, len.pos, U32ToNat(len.val))
       IN IF ~raw.ok THEN raw
       ELSE IF Len(raw.val) = 0 THEN ReadErr("panic", raw.pos)
       ELSE IF raw.val[Len(raw.val)] # 0 THEN ReadErr("FTextNotTerminated", raw.pos)
       ELSE ReadOk([raw |-> raw.val], raw.pos)

(***************************************************************************)
(* StoreData (store_data.rs)                                               *)
(***************************************************************************)
START_MAGIC == <<18, 52, 86, 121>>
END_MAGIC == <<135, 101, 67, 33>>

StoreData(text_data, numberless_names, names, numberless_export_paths, ansi_strings, wide_strings, numberless_pairs, pairs) ==
    [text_data |-> text_data, numberless_names |-> numberless_names, names |-> names,
     numberless_export_paths |-> numberless_export_paths,
     ansi_strings |-> ansi_strings, wide_strings |-> wide_strings,
     numberless_pairs |-> numberless_pairs, pairs |-> pairs]

\* The order in which StoreData::write emits the sections.
StoreData_write_order ==
    <<"begin_magic", "counts", "text_data", "numberless_names", "names",
      "numberless_export_paths", "ansi_string_offsets", "wide_string_offsets",
      "ansi_strings", "wide_strings", "numberless_pairs", "pairs", "end_magic">>

\* The order in which StoreData::read consumes them.
StoreData_read_order ==
    <<"begin_magic", "counts", "text_data", "numberless_names", "names",
      "numberless_export_paths", "ansi_string_offsets", "wide_string_offsets",
      "ansi_strings", "wide_strings", "numberless_pairs", "pairs", "end_magic">>

IndexOf(order, stage) == CHOOSE i \in 1..Len(order) : order[i] = stage

\* A total that leaves the terminators out.
StringPoolBytes_NoTerminator(strings) ==
    SumSeq([i \in 1..Len(strings) |-> str_len(strings[i])])

\* let mut n = 0u32; strings.for_each(|s| n += s.len() as u32 + 1)
StringPoolBytes(strings) ==
    SumSeq([i \in 1..Len(strings) |-> str_len(strings[i]) + 1])

\* The offsets written for a pool: the running sum of s.len() + 1.
StringPoolOffsets(strings) ==
    [i \in 1..Len(strings) |-> StringPoolBytes(SubSeq(strings, 1, i - 1))]

u32_of_len(seq) == write_u32_LE(NatToU32(Len(seq)))

\* The counts header: six counts, the two byte totals, two more counts.
StoreData_write_counts(sd) ==
    u32_of_len(sd.numberless_names)
    \o u32_of_len(sd.names)
    \o u32_of_len(sd.numberless_export_paths)
    \o u32_of_len(sd.text_data)
    \o u32_of_len(sd.ansi_strings)
    \o u32_of_len(sd.wide_strings)
    \o write_u32_LE(NatToU32(StringPoolBytes(sd.ansi_strings)))
    \o write_u32_LE(NatToU32(StringPoolBytes(sd.wide_strings)))
    \o u32_of_len(sd.numberless_pairs)
    \o u32_of_len(sd.pairs)

\* write_array_content(writer, elements): written[i] is what e.write(writer)
\* appends for the i-th element.
write_array_content(written) == Concat(written)

write_offset(n) == write_u32_LE(NatToU32(n))

\* The narrow string written without its NUL byte.
write_ansi_string_Unterminated(s) == as_bytes(s)

\* Each narrow string as its bytes and a NUL byte.
write_ansi_string(s) == as_bytes(s) \o write_u8(0)

\* Each wide string as its UTF-16 units, little-endian, and one NUL byte.
write_wide_string(s) ==
    Concat([i \in 1..Len(encode_utf16(s)) |-> write_u16_LE(encode_utf16(s)[i])])
    \o write_u8(0)

\* The bytes one section of StoreData::write appends.
StoreData_write_section(stage, sd) ==
    CASE stage = "begin_magic" -> write_u32_LE(START_MAGIC)
      [] stage = "counts" -> StoreData_write_counts(sd)
      [] stage = "text_data" ->
            write_array_content(
                [i \in 1..Len(sd.text_data) |-> FText_write(sd.text_data[i])])
      [] stage = "numberless_names" ->
            write_array_content(
                [i \in 1..Len(sd.numberless_names) |-> FName_write(sd.numberless_names[i])])
      [] stage = "names" ->
            write_array_content([i \in 1..Len(sd.names) |-> FName_write(sd.names[i])])
      [] stage = "numberless_export_paths" ->
            write_array_content(
                [i \in 1..Len(sd.numberless_export_paths) |->
                    FAssetRegistryExportPath_write(sd.numberless_export_paths[i])])
      [] stage = "ansi_string_offsets" ->
            Concat([i \in 1..Len(sd.ansi_strings) |->
                       write_offset(StringPoolOffsets(sd.ansi_strings)[i])])
      [] stage = "wide_string_offsets" ->
            Concat([i \in 1..Len(sd.wide_strings) |->
                       write_offset(StringPoolOffsets(sd.wide_strings)[i])])
      [] stage = "ansi_strings" ->
            Concat([i \in 1..Len(sd.ansi_strings) |->
                       write_ansi_string(sd.ansi_strings[i])])
      [] stage = "wide_strings" ->
            Concat([i \in 1..Len(sd.wide_strings) |->
                       write_wide_string(sd.wide_strings[i])])
      [] stage = "numberless_pairs" ->
            write_array_content(
                [i \in 1..Len(sd.numberless_pairs) |->
                    FNumberedPair_write(sd.numberless_pairs[i])])
      [] stage = "pairs" ->
            write_array_content(
                [i \in 1..Len(sd.pairs) |-> FNumberedPair_write(sd.pairs[i])])
      [] stage = "end_magic" -> write_u32_LE(END_MAGIC)

\* The ten u32 of the counts header, in the order StoreData::read takes them.
StoreData_count_names ==
    <<"numberless_names_count", "names_count", "numberless_export_paths_count",
      "text_data_count", "ansi_string_offsets_count", "wide_string_offsets_count",
      "ansi_string_bytes", "wide_string_bytes", "numberless_pairs_count",
      "pairs_count">>

StoreData_read_counts(b, p) ==
    LET words == read_array(Len(StoreData_count_names), p,
                            [q \in Positions(b) |-> read_u32_LE(b, q)])
    IN IF ~words.ok THEN words
       ELSE ReadOk([name \in {StoreData_count_names[i] : i \in 1..10} |->
                       U32ToNat(words.val[IndexOf(StoreData_count_names, name)])],
                   words.pos)

\* One packed string of the pool "Ansi" or "Wide": len - 1 bytes, a NUL byte,
\* and String::from_utf8 or String::from_utf16le of the bytes.
read_pool_string(pool, len, b, p) ==
    LET bytes == read_exact(b, p, len - 1)
    IN IF ~bytes.ok THEN bytes
       ELSE LET nul == read_u8(b, bytes.pos)
       IN IF ~nul.ok THEN nul
       ELSE IF nul.val # 0 THEN ReadErr(pool \o "NotNulTerminated", nul.pos)
       ELSE LET str == IF pool = "Ansi" THEN from_utf8(bytes.val)
                       ELSE from_utf16le(bytes.val)
       IN IF str.ok THEN ReadOk(str.val, nul.pos) ELSE ReadErr(str.err, nul.pos)

\* The windows of the offsets alone, the byte total not chained to them.
OffsetWindows_Unchained(offsets, total) ==
    IF offsets = <<>> THEN <<>>
    ELSE [i \in 1..(Len(offsets) - 1) |->
             [offset |-> offsets[i], next_offset |-> offsets[i + 1]]]

\* offsets.iter().chain(once(&total)).tuple_windows(): the pairs (o[i], o[i+1]),
\* the last one closed by the byte total; none when there is no offset.
OffsetWindows(offsets, total) ==
    LET chained == offsets \o <<total>>
    IN [i \in 1..(Len(chained) - 1) |->
           [offset |-> chained[i], next_offset |-> chained[i + 1]]]

\* The derived length taken as the string's bytes without the terminator.
pool_string_len_TerminatorExcluded(w) == w.next_offset - w.offset + 1

\* let len = next_offset - offset: the string's bytes and its terminator.
pool_string_len(w) == w.next_offset - w.offset

\* The checks on one (offset, next_offset) of the ANSI pool: the error they
\* raise, or "".  (len > isize::MAX as u32 cannot hold of a u32.)
check_ansi_window(w, ansi_string_bytes) ==
    IF w.offset >= w.next_offset THEN "AnsiOffsetNotIncreasing"
    ELSE IF w.offset > ansi_string_bytes \/ w.next_offset > ansi_string_bytes
         THEN "AnsiOffsetExceedsBytes"
    ELSE IF pool_string_len(w) = 0 THEN "AnsiLenZero"
    ELSE ""

\* The checks on one (offset, next_offset) of the wide pool.
check_wide_window(w, wide_string_bytes) ==
    IF w.offset >= w.next_offset THEN "WideOffsetNotIncreasing"
    ELSE IF pool_string_len(w) = 0 THEN "WideLenZero"
    ELSE ""

\* The loop over the windows of one pool.
read_pool(pool, offsets, total, b, p) ==
    LET windows == OffsetWindows(offsets, total)
        strings[k \in 0..Len(windows)] ==
            IF k = 0 THEN ReadOk(<<>>, p)
            ELSE LET rest == strings[k - 1]
                 IN IF ~rest.ok THEN rest
                    ELSE LET e == IF pool = "Ansi"
                                  THEN check_ansi_window(windows[k], total)
                                  ELSE check_wide_window(windows[k], total)
                         IN IF e # "" THEN ReadErr(e, rest.pos)
                            ELSE LET r == read_pool_string(
                                              pool, pool_string_len(windows[k]),
                                              b, rest.pos)
                                 IN IF r.ok THEN ReadOk(Append(rest.val, r.val), r.pos)
                                    ELSE r
    IN strings[Len(windows)]

read_offset(b, p) ==
    LET r == read_u32_LE(b, p)
    IN IF r.ok THEN ReadOk(U32ToNat(r.val), r.pos) ELSE r

\* The magic read and not compared.
read_magic_Unchecked(b, p, magic, what) == read_u32_LE(b, p)

\* The u32 read and compared with the expected magic.
read_magic(b, p, magic, what) ==
    LET r == read_u32_LE(b, p)
    IN IF ~r.ok THEN r
       ELSE IF r.val # magic THEN ReadErr(what \o "MagicMismatch", r.pos)
       ELSE ReadOk(r.val, r.pos)

\* What one section of StoreData::read reads, given the locals l read so far.
StoreData_read_section(stage, l, b, p) ==
    CASE stage = "begin_magic" -> read_magic(b, p, START_MAGIC, "Start")
      [] stage = "counts" -> StoreData_read_counts(b, p)
      [] stage = "text_data" -> read_array(l.counts.text_data_count, p,
                       [q \in Positions(b) |-> FText_read(b, q)])
      [] stage = "numberless_names" ->
            read_array(l.counts.numberless_names_count, p,
                       [q \in Positions(b) |-> FName_read(b, q)])
      [] stage = "names" -> read_array(l.counts.names_count, p,
                       [q \in Positions(b) |-> FName_read(b, q)])
      [] stage = "numberless_export_paths" ->
            read_array(l.counts.numberless_export_paths_count, p,
                       [q \in Positions(b) |-> FAssetRegistryExportPath_read(b, q)])
      [] stage = "ansi_string_offsets" ->
            read_array(l.counts.ansi_string_offsets_count, p,
                       [q \in Positions(b) |-> read_offset(b, q)])
      [] stage = "wide_string_offsets" ->
            read_array(l.counts.wide_string_offsets_count, p,
                       [q \in Positions(b) |-> read_offset(b, q)])
      [] stage = "ansi_strings" ->
            read_pool("Ansi", l.ansi_string_offsets, l.counts.ansi_string_bytes, b, p)
      [] stage = "wide_strings" ->
            read_pool("Wide", l.wide_string_offsets, l.counts.wide_string_bytes, b, p)
      [] stage = "numberless_pairs" ->
            read_array(l.counts.numberless_pairs_count, p,
                       [q \in Positions(b) |-> FNumberedPair_read(b, q)])
      [] stage = "pairs" -> read_array(l.counts.pairs_count, p,
                       [q \in Positions(b) |-> FNumberedPair_read(b, q)])
      [] stage = "end_magic" -> read_magic(b, p, END_MAGIC, "End")

\* The value StoreData::read returns after the end magic.
StoreData_read_value(l) ==
    StoreData(l.text_data, l.numberless_names, l.names, l.numberless_export_paths,
              l.ansi_strings, l.wide_strings, l.numberless_pairs, l.pairs)

\* The locals of StoreData::read before anything is read.
StoreData_read_locals ==
    [stage |-> StoreData_read_order[1], done |-> <<>>]

SD_WriteSection ==
    /\ pc = "StoreData_write"
    /\ buf' = buf \o StoreData_write_section(locals.stage, self)
    /\ LET i == IndexOf(StoreData_write_order, locals.stage)
       IN IF i < Len(StoreData_write_order)
          THEN /\ locals' = [locals EXCEPT !.stage = StoreData_write_order[i + 1],
                                           !.done = Append(@, locals.stage)]
               /\ pc' = pc
          ELSE /\ locals' = StoreData_read_locals
               /\ pc' = "StoreData_read"
    /\ UNCHANGED <<self, cursor, result>>

SD_ReadSection ==
    /\ pc = "StoreData_read"
    /\ LET r == StoreData_read_section(locals.stage, locals, buf, cursor)
           i == IndexOf(StoreData_read_order, locals.stage)
           read == [locals EXCEPT !.done = Append(@, locals.stage)]
           l == (locals.stage :> r.val) @@ read
       IN /\ cursor' = r.pos
          /\ IF ~r.ok
             THEN /\ locals' = locals
                  /\ result' = Err(r.err)
                  /\ pc' = "StoreData_done"
             ELSE IF i < Len(StoreData_read_order)
             THEN /\ locals' = [l EXCEPT !.stage = StoreData_read_order[i + 1]]
                  /\ result' = result
                  /\ pc' = pc
             ELSE /\ locals' = [l EXCEPT !.stage = "return"]
                  /\ result' = Ok(StoreData_read_value(l))
                  /\ pc' = "StoreData_done"
    /\ UNCHANGED <<self, buf>>

(***************************************************************************)
(* Inputs of the store data                                                *)
(***************************************************************************)
MaxStrings == 2
MaxOffset == 3

N(n) == NatToU32(n)

\* The records of tests::test_roundtrip (store_data.rs), and a second set with
\* two of each, an empty text and a pair whose value has type bits 1.
StoreRecords ==
    {[text_data |-> <<>>, numberless_names |-> <<>>, names |-> <<>>,
      numberless_export_paths |-> <<>>, numberless_pairs |-> <<>>, pairs |-> <<>>],
     [text_data |-> <<FText_from(<<79, 119, 79>>)>>,
      numberless_names |-> <<FName(N(0), N(567))>>,
      names |-> <<FName(N(134), N(536)), FName(N(621), N(999))>>,
      numberless_export_paths |->
          <<FAssetRegistryExportPath(FName(N(123), N(456)), FName(N(789), N(101)),
                                     FName(N(194), N(249)))>>,
      numberless_pairs |-> <<FNumberedPair(FName(N(192), N(795)), N(3492))>>,
      pairs |-> <<>>],
     [text_data |-> <<FText_from(<<>>), FText_from(<<233>>)>>,
      numberless_names |-> <<FName(N(1), N(0)), FName(START_MAGIC, END_MAGIC)>>,
      names |-> <<>>,
      numberless_export_paths |->
          <<FAssetRegistryExportPath(FName(N(1), N(2)), FName(N(3), N(4)),
                                     FName(N(5), N(6))),
            FAssetRegistryExportPath(FName(N(6), N(5)), FName(N(4), N(3)),
                                     FName(N(2), N(1)))>>,
      numberless_pairs |-> <<>>,
      pairs |-> <<FNumberedPair(FName(N(7), N(8)), N(9)),
                  FNumberedPair(FName(N(8), N(7)), END_MAGIC)>>]}

\* "", "a", "é": narrow strings of zero, one and two UTF-8 bytes.
AnsiStringValues == {<<>>, <<97>>, <<233>>}

\* "a", "é🙇": wide strings of one and three UTF-16 units.
WideStringValues == {<<97>>, <<233, 128583>>}

StoreValues ==
    {StoreData(r.text_data, r.numberless_names, r.names, r.numberless_export_paths,
               a, w, r.numberless_pairs, r.pairs) :
        r \in StoreRecords,
        a \in SeqsUpTo(AnsiStringValues, MaxStrings),
        w \in SeqsUpTo(WideStringValues, MaxStrings)}

InitStoreEncode ==
    /\ pc = "StoreData_write"
    /\ self \in StoreValues
    /\ buf = <<>>
    /\ cursor = 0
    /\ locals = [stage |-> StoreData_write_order[1], done |-> <<>>]
    /\ result = None

\* A crafted input: the magics, one string pool described by its offsets and
\* declared byte total, every other array empty.  The blob holds, for each
\* increasing window, len - 1 bytes "a" and a closing byte (NUL when
\* terminated); `pool` says which of the two pools the offsets belong to.
CraftedBlob(offsets, total, terminated) ==
    LET chained == offsets \o <<total>>
    IN Concat([i \in 1..Len(offsets) |->
           IF chained[i + 1] > chained[i]
           THEN Repeat(97, chained[i + 1] - chained[i] - 1)
                \o <<IF terminated THEN 0 ELSE 97>>
           ELSE <<>>])

CraftedStoreBytes(c) ==
    Reverse(c.start_magic)
    \o Reverse(N(0)) \o Reverse(N(0)) \o Reverse(N(0)) \o Reverse(N(0))
    \o Reverse(N(IF c.pool = "ansi" THEN Len(c.offsets) ELSE 0))
    \o Reverse(N(IF c.pool = "wide" THEN Len(c.offsets) ELSE 0))
    \o Reverse(N(IF c.pool = "ansi" THEN c.total ELSE 0))
    \o Reverse(N(IF c.pool = "wide" THEN c.total ELSE 0))
    \o Reverse(N(0)) \o Reverse(N(0))
    \o Concat([i \in 1..Len(c.offsets) |-> Reverse(N(c.offsets[i]))])
    \o CraftedBlob(c.offsets, c.total, c.terminated)
    \o Reverse(c.end_magic)

\* Pools over a blob of 11 bytes, "aaaa\0aaaaa\0": one offset per string, and
\* the same offsets followed by the total as a third offset.
ScenarioPools ==
    {[offsets |-> <<0, 5>>, total |-> 11], [offsets |-> <<0, 5, 11>>, total |-> 11]}

CraftedStores ==
    {[start_magic |-> sm, end_magic |-> em, pool |-> pl, offsets |-> os, total |-> t,
      terminated |-> tm] :
        sm \in {START_MAGIC, <<18, 52, 86, 120>>},
        em \in {END_MAGIC, <<135, 101, 67, 32>>, START_MAGIC},
        pl \in {"ansi", "wide"},
        os \in SeqsUpTo(0..MaxOffset, MaxStrings),
        t \in 0..MaxOffset,
        tm \in BOOLEAN}
    \cup
    {[start_magic |-> START_MAGIC, end_magic |-> END_MAGIC, pool |-> pl,
      offsets |-> sp.offsets, total |-> sp.total, terminated |-> TRUE] :
        pl \in {"ansi", "wide"}, sp \in ScenarioPools}

InitStoreCrafted ==
    /\ pc = "StoreData_read"
    /\ self \in CraftedStores
    /\ buf = CraftedStoreBytes(self)
    /\ cursor = 0
    /\ locals = StoreData_read_locals
    /\ result = None

InitStore == InitStoreEncode \/ InitStoreCrafted

NextStore == SD_WriteSection \/ SD_ReadSection

SpecStore == InitStore /\ [][NextStore]_vars

(***************************************************************************)
(* Properties of the store data                                            *)
(***************************************************************************)
IsStore(v) == "text_data" \in DOMAIN v
IsCraftedStore(v) == "pool" \in DOMAIN v

\* Some offset is not below its successor (the total after the last one), or
\* some offset is above the total.
BadOffsets(offsets, total) ==
    LET chained == offsets \o <<total>>
    IN \/ \E i \in 1..Len(offsets) : chained[i] >= chained[i + 1]
       \/ \E i \in 1..Len(offsets) : offsets[i] > total

\* The four bytes StoreData::read took last.
LastWord == SubSeq(buf, cursor - 3, cursor)

\* C2: a store with an empty wide pool, whatever its texts, names, export
\* paths, narrow strings (the empty one included) and pairs, is read back from
\* the bytes written for it as an equal store.
C2_StoreDataRoundTrip ==
    (pc = "StoreData_done" /\ IsStore(self) /\ self.wide_strings = <<>>)
        => result = Ok(self)

\* C2 witness: the records of the repository's test with the narrow strings ""
\* and "é", read back equal.
C2_Witness ==
    /\ pc = "StoreData_done"
    /\ IsStore(self)
    /\ self.wide_strings = <<>>
    /\ self.ansi_strings = <<<<>>, <<233>>>>
    /\ Len(self.numberless_pairs) = 1
    /\ result = Ok(self)

IsScenario(v, offsets) ==
    /\ IsCraftedStore(v)
    /\ v.pool = "ansi"
    /\ v.offsets = offsets
    /\ v.total = 11

\* Where the narrow blob starts when the narrow pool has n offsets and every
\* other array is empty: the magic, the ten counts, the offsets.
AnsiBlobStart(n) == 4 + 4 * 10 + 4 * n

\* C7 as stated: from narrow offsets [0, 5, 11] and a narrow byte total of 11
\* the read returns the strings of derived length 5 and 6.
C7_ScenarioAsStated ==
    (pc = "StoreData_done" /\ IsScenario(self, <<0, 5, 11>>)) =>
        /\ result.ok
        /\ Len(result.val.ansi_strings) = 2
        /\ str_len(result.val.ansi_strings[1]) + 1 = 5
        /\ str_len(result.val.ansi_strings[2]) + 1 = 6

\* C7: from narrow offsets [0, 5] and a narrow byte total of 11 the reader
\* derives the lengths 5 and 6, terminator included, and returns the two
\* strings of 4 and 5 bytes, having taken the 11 bytes of the blob.  From
\* narrow offsets [0, 5, 11] and a total of 11 it takes the same 11 bytes and
\* then returns an error: the third offset is not below the total.
C7_ScenarioOffsets ==
    pc = "StoreData_done" =>
        /\ IsScenario(self, <<0, 5>>) =>
              /\ result.ok
              /\ result.val.ansi_strings = <<Repeat(97, 5 - 1), Repeat(97, 6 - 1)>>
              /\ locals.done[9] = "ansi_strings"
              /\ cursor = AnsiBlobStart(2) + 11 + 4
        /\ IsScenario(self, <<0, 5, 11>>) =>
              /\ result = Err("AnsiOffsetNotIncreasing")
              /\ cursor = AnsiBlobStart(3) + 11
              /\ locals.stage = "ansi_strings"

\* C7 witness: the read of offsets [0, 5] with total 11 has returned its two
\* strings.
C7_Witness ==
    /\ pc = "StoreData_done"
    /\ IsScenario(self, <<0, 5>>)
    /\ result.ok
    /\ result.val.ansi_strings = <<<<97, 97, 97, 97>>, <<97, 97, 97, 97, 97>>>>

\* C8: for the narrow pool and for the wide pool, StoreData::read returns an
\* error when an offset it has read is not strictly below its successor (the
\* declared byte total after the last offset) or is above the declared total.
C8_BadOffsetsRejected ==
    pc = "StoreData_done" =>
        /\ ("ansi_string_offsets" \in DOMAIN locals
            /\ BadOffsets(locals.ansi_string_offsets, locals.counts.ansi_string_bytes))
              => ~result.ok
        /\ ("wide_string_offsets" \in DOMAIN locals
            /\ BadOffsets(locals.wide_string_offsets, locals.counts.wide_string_bytes))
              => ~result.ok
        /\ (IsCraftedStore(self) /\ BadOffsets(self.offsets, self.total)) => ~result.ok

\* C8 witness: wide offsets [0, 3] with a total of 2, framed by the right
\* magics: the second offset is above the total and the read is refused there.
C8_Witness ==
    /\ pc = "StoreData_done"
    /\ IsCraftedStore(self)
    /\ self.pool = "wide"
    /\ self.offsets = <<0, 3>>
    /\ self.total = 2
    /\ self.start_magic = START_MAGIC
    /\ self.end_magic = END_MAGIC
    /\ locals.wide_string_offsets = <<0, 3>>
    /\ result.err = "WideOffsetNotIncreasing"

\* C9: StoreData::read returns a value only when both magics are right.  A
\* wrong begin magic is refused with the magic error after its four bytes and
\* before any count or array is read; the end magic error is raised only after
\* the counts and every array have been read, on four bytes that differ from
\* the end magic.
C9_MagicFraming ==
    pc = "StoreData_done" =>
        /\ (Len(buf) >= 4 /\ SubSeq(buf, 1, 4) # write_u32_LE(START_MAGIC)) =>
              /\ result = Err("StartMagicMismatch")
              /\ cursor = 4
              /\ locals.done = <<>>
        /\ result.err = "EndMagicMismatch" =>
              /\ locals.done = SubSeq(StoreData_read_order, 1, 12)
              /\ LastWord # write_u32_LE(END_MAGIC)
        /\ result.ok =>
              /\ SubSeq(buf, 1, 4) = write_u32_LE(START_MAGIC)
              /\ LastWord = write_u32_LE(END_MAGIC)
        /\ (IsCraftedStore(self)
            /\ (self.start_magic # START_MAGIC \/ self.end_magic # END_MAGIC))
              => ~result.ok
        /\ (IsCraftedStore(self) /\ self.start_magic = START_MAGIC
            /\ self.end_magic # END_MAGIC /\ self.offsets = <<>> /\ self.total = 0)
              => result = Err("EndMagicMismatch")

\* C9 witness: a narrow pool of one string between the right begin magic and a
\* wrong end magic: everything is read, then the end magic is refused.
C9_Witness ==
    /\ pc = "StoreData_done"
    /\ IsCraftedStore(self)
    /\ self.pool = "ansi"
    /\ self.offsets = <<0>>
    /\ self.total = 2
    /\ self.terminated
    /\ self.start_magic = START_MAGIC
    /\ self.end_magic # END_MAGIC
    /\ locals.ansi_strings = <<<<97>>>>
    /\ cursor = Len(buf)
    /\ result = Err("EndMagicMismatch")

\* C10: no pair whose packed value has low 3 bits outside {0, 1, 2} is in a
\* store that StoreData::read returns.
C10_BadTagRejected ==
    (pc = "StoreData_done" /\ result.ok) =>
        /\ \A i \in 1..Len(result.val.numberless_pairs) :
              ValueTypeBits(result.val.numberless_pairs[i].value) \in {0, 1, 2}
        /\ \A i \in 1..Len(result.val.pairs) :
              ValueTypeBits(result.val.pairs[i].value) \in {0, 1, 2}

(***************************************************************************)
(* FString (unreal_types/fstring.rs)                                       *)
(***************************************************************************)
\* An i32 is kept as the four digits of its two's complement, like a u32.
I32_MIN == <<128, 0, 0, 0>>

I32IsNegative(d) == d[1] >= 128

\* -m for m in 1..2^31 - 1: the complement of m - 1.
I32Neg(m) == [i \in 1..4 |-> 255 - NatToU32(m - 1)[i]]

\* -d for a negative d other than i32::MIN.
I32Magnitude(d) == U32ToNat([i \in 1..4 |-> 255 - d[i]]) + 1

write_i32_LE(d) == Reverse(d)

read_i32_LE(b, p) == read_u32_LE(b, p)

FString(inner) == [inner |-> inner]

\* A test that takes every code point below U+0100 for narrow.
is_ascii_Latin1(s) == \A i \in 1..Len(s) : s[i] < 256

\* str::is_ascii
is_ascii(s) == \A i \in 1..Len(s) : s[i] < 128

\* The wide length counted in units and their terminator.
FString_wide_len_Units(units) == Len(units) + 1

\* let len = buf.len() * size_of::<u16>(); the field is -(len as i32 + 1).
FString_wide_len(units) == Len(units) * 2 + 1

FString_write(f) ==
    (IF is_ascii(f.inner)
     THEN write_u32_LE(NatToU32(str_len(f.inner) + 1)) \o as_bytes(f.inner)
     ELSE write_i32_LE(I32Neg(FString_wide_len(encode_utf16(f.inner))))
          \o Concat([i \in 1..Len(encode_utf16(f.inner)) |->
                        write_u16_LE(encode_utf16(f.inner)[i])]))
    \o write_u8(0)

\* The match on len up to the vec! of its arm: the arm taken, the error raised
\* before any buffer exists, or the size of the buffer allocated.  -len
\* overflows for i32::MIN: with overflow checks the negation panics, without
\* them it wraps to i32::MIN, whose usize is 2^64 - 2^31, one more than an odd
\* number.
FString_read_match(len, overflow_checks) ==
    IF len = <<0, 0, 0, 0>>
    THEN [err |-> "FStringLenZero", overflowed |-> FALSE, wide |-> FALSE, allocated |-> -1]
    ELSE IF ~I32IsNegative(len)
    THEN [err |-> "", overflowed |-> FALSE, wide |-> FALSE,
          allocated |-> U32ToNat(len) - 1]
    ELSE IF len = I32_MIN
    THEN [err |-> IF overflow_checks THEN "panic" ELSE "FStringOddLength",
          overflowed |-> TRUE, wide |-> TRUE, allocated |-> -1]
    ELSE IF (I32Magnitude(len) - 1) % 2 # 0
    THEN [err |-> "FStringOddLength", overflowed |-> FALSE, wide |-> TRUE,
          allocated |-> -1]
    ELSE [err |-> "", overflowed |-> FALSE, wide |-> TRUE,
          allocated |-> I32Magnitude(len) - 1]

\* The rest of the arm: the buffer is filled, the NUL byte read, the string
\* built from the bytes (narrow) or from their little-endian units (wide).
FString_read_body(wide, size, b, p) ==
    LET bytes == read_exact(b, p, size)
    IN IF ~bytes.ok THEN bytes
       ELSE LET nul == read_u8(b, bytes.pos)
       IN IF ~nul.ok THEN nul
       ELSE IF nul.val # 0 THEN ReadErr("FStringNotNulTerminated", nul.pos)
       ELSE LET str == IF wide THEN from_utf16le(bytes.val) ELSE from_utf8(bytes.val)
       IN IF str.ok THEN ReadOk(FString(str.val), nul.pos)
          ELSE ReadErr(str.err, nul.pos)

FS_Write ==
    /\ pc = "FString_write"
    /\ buf' = buf \o FString_write(self)
    /\ pc' = "FString_read"
    /\ UNCHANGED <<self, cursor, locals, result>>

FS_ReadLen ==
    /\ pc = "FString_read"
    /\ LET len == read_i32_LE(buf, cursor)
       IN /\ cursor' = len.pos
          /\ IF ~len.ok
             THEN /\ locals' = locals
                  /\ result' = Err(len.err)
                  /\ pc' = "FString_done"
             ELSE \E overflow_checks \in BOOLEAN :
                     LET arm == FString_read_match(len.val, overflow_checks)
                     IN /\ locals' = [len |-> len.val, wide |-> arm.wide,
                                      overflowed |-> arm.overflowed,
                                      allocated |-> arm.allocated]
                        /\ IF arm.err # ""
                           THEN /\ result' = Err(arm.err)
                                /\ pc' = "FString_done"
                           ELSE /\ result' = result
                                /\ pc' = "FString_read_body"
    /\ UNCHANGED <<self, buf>>

FS_ReadBody ==
    /\ pc = "FString_read_body"
    /\ LET r == FString_read_body(locals.wide, locals.allocated, buf, cursor)
       IN /\ cursor' = r.pos
          /\ result' = IF r.ok THEN Ok(r.val) ELSE Err(r.err)
          /\ pc' = "FString_done"
    /\ UNCHANGED <<self, buf, locals>>

(***************************************************************************)
(* Inputs of FString                                                       *)
(***************************************************************************)
MaxBody == 3

\* "", "a", "OwO", "é", "aé", "🙇", "a🙇é"
FStringValues ==
    {FString(s) : s \in {<<>>, <<97>>, <<79, 119, 79>>, <<233>>, <<97, 233>>,
                         <<128583>>, <<97, 128583, 233>>}}

\* 16 MiB
SixteenMiB == 16 * 1024 * 1024

\* Length fields: zero, i32::MIN, the small ones of both signs, and those around
\* 16 MiB and i32::MAX of both signs.
FStringLens ==
    {<<0, 0, 0, 0>>, I32_MIN}
    \cup {NatToU32(n) : n \in 1..(MaxBody + 2)}
    \cup {I32Neg(n) : n \in 1..(MaxBody + 2)}
    \cup {NatToU32(n) : n \in {SixteenMiB, SixteenMiB + 1, SixteenMiB + 2}}
    \cup {I32Neg(n) : n \in {SixteenMiB, SixteenMiB + 1, SixteenMiB + 2}}
    \cup {<<127, 255, 255, 255>>, <<128, 0, 0, 1>>}

\* NUL, "a", and 0xD8: alone no UTF-8, and as a high byte an unpaired surrogate.
FStringBodyBytes == {0, 97, 216}

CraftedFStrings ==
    {[len |-> l, body |-> bd] :
        l \in FStringLens, bd \in SeqsUpTo(FStringBodyBytes, MaxBody)}

InitFStringEncode ==
    /\ pc = "FString_write"
    /\ self \in FStringValues
    /\ buf = <<>>
    /\ cursor = 0
    /\ locals = NoLocals
    /\ result = None

InitFStringCrafted ==
    /\ pc = "FString_read"
    /\ self \in CraftedFStrings
    /\ buf = write_i32_LE(self.len) \o self.body
    /\ cursor = 0
    /\ locals = NoLocals
    /\ result = None

InitFString == InitFStringEncode \/ InitFStringCrafted

NextFString == FS_Write \/ FS_ReadLen \/ FS_ReadBody

SpecFString == InitFString /\ [][NextFString]_vars

(***************************************************************************)
(* Properties of FString                                                   *)
(***************************************************************************)
IsFString(v) == "inner" \in DOMAIN v
IsCraftedFString(v) == "body" \in DOMAIN v

\* The length field at the head of the buffer, as an i32.
LengthField == Reverse(SubSeq(buf, 1, 4))

\* The little-endian bytes of the UTF-16 units of s.
Utf16Bytes(s) ==
    Concat([i \in 1..Len(encode_utf16(s)) |-> write_u16_LE(encode_utf16(s)[i])])

\* C11: FString::write gives a positive length field to a string whose code
\* points are all below U+0080; as soon as one code point is at or above
\* U+0080 the field is negative, it covers everything written after it, and
\* what follows it is the whole string as 16-bit units.
C11_LengthSign ==
    (pc = "FString_read" /\ IsFString(self)) =>
        IF \A i \in 1..Len(self.inner) : self.inner[i] < 128
        THEN /\ ~I32IsNegative(LengthField)
             /\ LengthField # <<0, 0, 0, 0>>
        ELSE /\ I32IsNegative(LengthField)
             /\ I32Magnitude(LengthField) = Len(buf) - 4
             /\ SubSeq(buf, 5, Len(buf) - 1) = Utf16Bytes(self.inner)

\* C11 witness: "aé" written with the field -5 and both characters as units.
C11_Witness ==
    /\ pc = "FString_read"
    /\ self = FString(<<97, 233>>)
    /\ buf = <<251, 255, 255, 255, 97, 0, 233, 0, 0>>

\* C12: FString::read of a length field of 0 or of i32::MIN returns an error
\* without panicking, without overflowing and without allocating a buffer.
C12_ZeroAndMinRejected ==
    (pc = "FString_done" /\ IsCraftedFString(self)
     /\ self.len \in {<<0, 0, 0, 0>>, I32_MIN}) =>
        /\ ~result.ok
        /\ result.err # "panic"
        /\ ~locals.overflowed
        /\ locals.allocated = -1

\* C13: for a pure-narrow string FString::write emits a length field equal to
\* the number of payload bytes and then exactly those bytes, no terminator; for
\* a wide string it emits minus the number of 16-bit units, one trailing zero
\* unit included, and then that many little-endian units.
C13_LengthField ==
    (pc = "FString_read" /\ IsFString(self)) =>
        IF is_ascii(self.inner)
        THEN /\ LengthField = NatToU32(str_len(self.inner))
             /\ buf = write_u32_LE(LengthField) \o as_bytes(self.inner)
        ELSE /\ LengthField = I32Neg(Len(encode_utf16(self.inner)) + 1)
             /\ buf = write_i32_LE(LengthField) \o Utf16Bytes(self.inner)
                      \o write_u16_LE(0)

\* C14: every string, pure ASCII (the empty one included) or with code points
\* at or above U+0080 (those outside the BMP included), is read back by
\* FString::read from the bytes FString::write wrote for it as an equal
\* FString, and the read consumes exactly the bytes written.
C14_FStringRoundTrip ==
    (pc = "FString_done" /\ IsFString(self)) =>
        /\ result = Ok(self)
        /\ cursor = Len(buf)

\* C14 witness: "a🙇é", a surrogate pair between two BMP characters, read back.
C14_Witness ==
    /\ pc = "FString_done"
    /\ self = FString(<<97, 128583, 233>>)
    /\ Len(buf) = 4 + 2 * 4 + 1
    /\ cursor = Len(buf)
    /\ result = Ok(self)

\* The magnitude of a length field is above 16 MiB.
ExceedsSixteenMiB(len) ==
    \/ len = I32_MIN
    \/ I32IsNegative(len) /\ len # I32_MIN /\ I32Magnitude(len) > SixteenMiB
    \/ ~I32IsNegative(len) /\ U32ToNat(len) > SixteenMiB

\* C20: FString::read returns an error for every length field whose magnitude
\* is above 16 MiB, and has allocated no buffer when it does.
C20_LargeLengthRejected ==
    (pc = "FString_done" /\ IsCraftedFString(self) /\ ExceedsSixteenMiB(self.len)) =>
        /\ ~result.ok
        /\ locals.allocated = -1

(***************************************************************************)
(* AssetRegistryVersion, AssetRegistryHeader, AssetRegistry                *)
(***************************************************************************)
ASSET_REGISTRY_VERSION_GUID ==
    <<231, 158, 127, 113, 58, 73, 176, 233, 50, 145, 179, 136, 7, 129, 56, 27>>

\* The ordinals of enum AssetRegistryVersion, PreVersioning = 0 first.
AddedHeader == 16
LATEST_VERSION == 17

AssetRegistryVersion == 0..LATEST_VERSION

\* AssetRegistryVersion::try_from(version_int)
AssetRegistryVersion_try_from(version_int) ==
    IF version_int[1] = 0 /\ version_int[2] = 0 /\ version_int[3] = 0
       /\ version_int[4] \in AssetRegistryVersion
    THEN Ok(version_int[4])
    ELSE Err("UnexpectedAssetRegistryVersion")

AssetRegistryVersion_write(v) ==
    ASSET_REGISTRY_VERSION_GUID \o write_u32_LE(NatToU32(v))

\* A version read as its ordinal alone, without the GUID before it.
AssetRegistryVersion_read_NoGuid(b, p) ==
    LET version_int == read_u32_LE(b, p)
    IN IF ~version_int.ok THEN version_int
       ELSE LET version == AssetRegistryVersion_try_from(version_int.val)
            IN IF version.ok THEN ReadOk(version.val, version_int.pos)
               ELSE ReadErr(version.err, version_int.pos)

AssetRegistryVersion_read(b, p) ==
    LET guid == read_exact(b, p, 16)
    IN IF ~guid.ok THEN guid
       ELSE IF guid.val # ASSET_REGISTRY_VERSION_GUID THEN ReadErr("InvalidGuid", guid.pos)
       ELSE LET version_int == read_u32_LE(b, guid.pos)
       IN IF ~version_int.ok THEN version_int
       ELSE LET version == AssetRegistryVersion_try_from(version_int.val)
       IN IF version.ok THEN ReadOk(version.val, version_int.pos)
          ELSE ReadErr(version.err, version_int.pos)

AssetRegistryHeader(version) == [version |-> version]

AssetRegistryHeader_write(h) ==
    ASSET_REGISTRY_VERSION_GUID \o AssetRegistryVersion_write(h.version)

AssetRegistryHeader_read(b, p) ==
    LET guid == read_exact(b, p, 16)
    IN IF ~guid.ok THEN guid
       ELSE IF guid.val # ASSET_REGISTRY_VERSION_GUID THEN ReadErr("InvalidGuid", guid.pos)
       ELSE LET version == AssetRegistryVersion_read(b, guid.pos)
       IN IF ~version.ok THEN version
          ELSE ReadOk(AssetRegistryHeader(version.val), version.pos)

\* The value NamesBatch::read returns once the loop has ended.
NamesBatch_read_return(done) ==
    IF ~done.ok THEN done
    ELSE IF NamesBatch_read_finish(done.val).ok
         THEN ReadOk(NamesBatch_read_finish(done.val).val, done.pos)
    ELSE ReadErr(NamesBatch_read_finish(done.val).err, done.pos)

\* One iteration of `for header in &headers` folded into the locals.
NamesBatch_read_push(l, header, r) ==
    IF ~r.ok THEN r
    ELSE ReadOk([l EXCEPT !.strings = Append(@, r.val),
                          !.processed_string_bytes = @ + n_bytes(header)],
                r.pos)

\* `for header in &headers` from entry k on.
RECURSIVE NamesBatch_read_strings(_, _, _)
NamesBatch_read_strings(rest, k, b) ==
    IF ~rest.ok \/ k > rest.val.count THEN rest
    ELSE NamesBatch_read_strings(
             NamesBatch_read_push(
                 rest.val, rest.val.headers[k],
                 NamesBatch_read_string(rest.val.headers[k],
                                        rest.val.processed_string_bytes,
                                        rest.val.expected_string_bytes, b, rest.pos)),
             k + 1, b)

\* NamesBatch::read as one call: the prefix, the loop over the headers, the
\* final check.
NamesBatch_read(b, p) ==
    NamesBatch_read_return(NamesBatch_read_strings(NamesBatch_read_prefix(b, p), 1, b))

AssetRegistry(names) == [names |-> names]

\* The header written by AssetRegistry::write.
AssetRegistry_header == AssetRegistryHeader(LATEST_VERSION)

AssetRegistry_write(ar) ==
    AssetRegistryHeader_write(AssetRegistry_header) \o NamesBatch_write(ar.names)

\* The value AssetRegistry::read returns once the names are read.
AssetRegistry_read_return(names) ==
    IF ~names.ok THEN names ELSE ReadOk(AssetRegistry(names.val), names.pos)

\* AssetRegistry::read after its header.
AssetRegistry_read_names(header, b) ==
    IF ~header.ok THEN header
    ELSE AssetRegistry_read_return(NamesBatch_read(b, header.pos))

AssetRegistry_read(b, p) ==
    AssetRegistry_read_names(AssetRegistryHeader_read(b, p), b)

ARH_Write ==
    /\ pc = "AssetRegistryHeader_write"
    /\ buf' = buf \o AssetRegistryHeader_write(self)
    /\ pc' = "AssetRegistryHeader_read"
    /\ UNCHANGED <<self, cursor, locals, result>>

ARH_Read ==
    /\ pc = "AssetRegistryHeader_read"
    /\ LET r == AssetRegistryHeader_read(buf, cursor)
       IN /\ cursor' = r.pos
          /\ result' = IF r.ok THEN Ok(r.val) ELSE Err(r.err)
    /\ pc' = "AssetRegistryHeader_done"
    /\ UNCHANGED <<self, buf, locals>>

\* The header is written before NamesBatch::write reaches its assert_eq!.
AR_Write ==
    /\ pc = "AssetRegistry_write"
    /\ IF NamesBatch_write_asserts(self.names)
       THEN /\ buf' = buf \o AssetRegistry_write(self)
            /\ pc' = "AssetRegistry_read"
            /\ result' = result
       ELSE /\ buf' = buf \o AssetRegistryHeader_write(AssetRegistry_header)
            /\ pc' = "AssetRegistry_done"
            /\ result' = Err("panic")
    /\ UNCHANGED <<self, cursor, locals>>

AR_Read ==
    /\ pc = "AssetRegistry_read"
    /\ LET r == AssetRegistry_read(buf, cursor)
       IN /\ cursor' = r.pos
          /\ result' = IF r.ok THEN Ok(r.val) ELSE Err(r.err)
    /\ pc' = "AssetRegistry_done"
    /\ UNCHANGED <<self, buf, locals>>

(***************************************************************************)
(* Inputs of the header and of the registry                                *)
(***************************************************************************)
MaxOrdinal == 19

\* The GUID with byte k raised by one (k = 0: the GUID itself).
GuidWithByteChanged(k) ==
    [i \in 1..16 |-> IF i = k THEN (ASSET_REGISTRY_VERSION_GUID[i] + 1) % 256
                     ELSE ASSET_REGISTRY_VERSION_GUID[i]]

\* A version word: the ordinals up to MaxOrdinal, and words whose upper bytes
\* are not zero.
VersionWords ==
    {NatToU32(n) : n \in 0..MaxOrdinal} \cup {<<0, 0, 1, 5>>, <<255, 255, 255, 255>>}

\* Header inputs: the GUID and the version word, or the GUID, a second GUID and
\* the version word.
CraftedHeaders ==
    {[guids |-> <<GuidWithByteChanged(k)>>, version_int |-> w] :
        k \in 0..16, w \in VersionWords}
    \cup
    {[guids |-> <<GuidWithByteChanged(k), GuidWithByteChanged(j)>>, version_int |-> w] :
        k \in 0..16, j \in {0, 1, 16}, w \in VersionWords}

CraftedHeaderImage(c) == Concat(c.guids) \o write_u32_LE(c.version_int)

\* The batch of asset_registry.rs tests::test_roundtrip, the empty batch, a
\* batch of one wide name, and a batch that fails the assert_eq! of write.
RegistryBatches ==
    {TestBatch,
     NamesBatch(HashAt(1), <<>>, <<>>, <<>>),
     NamesBatch(HashAt(1), <<HashAt(2)>>, <<SerializedNameHeader(TRUE, 2)>>, <<<<233>>>>),
     NamesBatch(HashAt(1), <<>>, <<SerializedNameHeader(FALSE, 2)>>, <<<<97>>>>)}

InitHeaderEncode ==
    /\ pc = "AssetRegistryHeader_write"
    /\ self \in {AssetRegistryHeader(v) : v \in AssetRegistryVersion}
    /\ buf = <<>>
    /\ cursor = 0
    /\ locals = NoLocals
    /\ result = None

InitHeaderCrafted ==
    /\ pc = "AssetRegistryHeader_read"
    /\ self \in CraftedHeaders
    /\ buf = CraftedHeaderImage(self)
    /\ cursor = 0
    /\ locals = NoLocals
    /\ result = None

InitRegistryEncode ==
    /\ pc = "AssetRegistry_write"
    /\ self \in {AssetRegistry(nb) : nb \in RegistryBatches}
    /\ buf = <<>>
    /\ cursor = 0
    /\ locals = NoLocals
    /\ result = None

InitRegistry == InitHeaderEncode \/ InitHeaderCrafted \/ InitRegistryEncode

NextRegistry == ARH_Write \/ ARH_Read \/ AR_Write \/ AR_Read

SpecRegistry == InitRegistry /\ [][NextRegistry]_vars

(***************************************************************************)
(* Claims about the header and the registry                                *)
(***************************************************************************)
IsEncodedHeader == DOMAIN self = {"version"}

IsCraftedHeader == DOMAIN self = {"guids", "version_int"}

IsRegistry == DOMAIN self = {"names"}

\* An input of the form: 16 GUID bytes, then the version word.
IsOneGuidInput == IsCraftedHeader /\ Len(self.guids) = 1

KnownOrdinal == AssetRegistryVersion_try_from(self.version_int).ok

\* C15: on an input made of the 16 GUID bytes and the version ordinal,
\* AssetRegistryHeader::read fails when the GUID bytes differ from the constant,
\* fails when the ordinal is not a known version, and for every known ordinal
\* succeeds and returns that version.
C15_HeaderReadChecks ==
    (pc = "AssetRegistryHeader_done" /\ IsOneGuidInput) =>
        /\ self.guids[1] # ASSET_REGISTRY_VERSION_GUID => ~result.ok
        /\ ~KnownOrdinal => ~result.ok
        /\ (self.guids[1] = ASSET_REGISTRY_VERSION_GUID /\ KnownOrdinal) =>
               result = Ok(AssetRegistryHeader(self.version_int[4]))

\* C16: AssetRegistryHeader::write emits the GUID exactly once, at bytes 0..16,
\* and the version ordinal as a little-endian u32 at bytes 16..20; read consumes
\* that same 20-byte layout.
C16_HeaderLayout ==
    /\ (pc = "AssetRegistryHeader_read" /\ IsEncodedHeader) =>
           buf = ASSET_REGISTRY_VERSION_GUID \o write_u32_LE(NatToU32(self.version))
    /\ (pc = "AssetRegistryHeader_done" /\ IsOneGuidInput
        /\ self.guids[1] = ASSET_REGISTRY_VERSION_GUID /\ KnownOrdinal) =>
           result.ok /\ cursor = 20

\* C17: a header written by AssetRegistryHeader::write is read back equal by
\* AssetRegistryHeader::read, for every version, consuming all the bytes
\* written; and what AssetRegistry::write emits starts with a header that
\* carries the latest version, whatever the registry holds.
C17_HeaderRoundTrip ==
    /\ (pc = "AssetRegistryHeader_done" /\ IsEncodedHeader) =>
           result = Ok(self) /\ cursor = Len(buf)
    /\ (pc \in {"AssetRegistry_read", "AssetRegistry_done"} /\ IsRegistry) =>
           /\ AssetRegistryHeader_read(buf, 0).ok
           /\ AssetRegistryHeader_read(buf, 0).val = AssetRegistryHeader(LATEST_VERSION)

C17_Witness ==
    /\ pc = "AssetRegistryHeader_done"
    /\ self = AssetRegistryHeader(AddedHeader)
    /\ result = Ok(self)
    /\ SubSeq(buf, Len(buf) - 3, Len(buf)) = <<16, 0, 0, 0>>

\* C18: a written header carries the editor-only-data flag, a u32 after the
\* version, exactly when its version is AddedHeader or later.
C18_EditorOnlyFlagGated ==
    (pc = "AssetRegistryHeader_read" /\ IsEncodedHeader) =>
        Len(buf) = Len(ASSET_REGISTRY_VERSION_GUID)
                   + Len(AssetRegistryVersion_write(self.version))
                   + (IF self.version >= AddedHeader THEN 4 ELSE 0)

(***************************************************************************)
(* Claim about the order of the sections of the store data                 *)
(***************************************************************************)
\* C19: StoreData::write and StoreData::read go through the sections in one
\* fixed order, never back: begin magic, the ten counts, text blobs, numberless
\* names, names, numberless export paths, export paths, narrow offsets, wide
\* offsets, narrow strings, wide strings, numberless pairs, numbered pairs, end
\* magic.  The sections done so far are always a prefix of that list.
C19_SectionOrder ==
    LET order == <<"begin_magic", "counts", "text_data", "numberless_names", "names",
                   "numberless_export_paths", "export_paths",
                   "ansi_string_offsets", "wide_string_offsets",
                   "ansi_strings", "wide_strings", "numberless_pairs", "pairs",
                   "end_magic">>
    IN (pc \in {"StoreData_write", "StoreData_read", "StoreData_done"}) =>
           /\ Len(locals.done) <= Len(order)
           /\ locals.done = SubSeq(order, 1, Len(locals.done))
           /\ (pc = "StoreData_done" /\ result.ok) => locals.done = order

(***************************************************************************)
(* FText on its own (unreal_types/ftext.rs)                                *)
(***************************************************************************)
FT_Write ==
    /\ pc = "FText_write"
    /\ buf' = buf \o FText_write(self)
    /\ pc' = "FText_read"
    /\ UNCHANGED <<self, cursor, locals, result>>

FT_Read ==
    /\ pc = "FText_read"
    /\ LET r == FText_read(buf, cursor)
       IN /\ cursor' = r.pos
          /\ result' = IF r.ok THEN Ok(r.val) ELSE Err(r.err)
    /\ pc' = "FText_done"
    /\ UNCHANGED <<self, buf, locals>>

\* The strings an FText is built from: "", ASCII, two-byte and four-byte
\* characters, and "Hello World!" of tests::test_roundtrip.
FTextStrings ==
    {<<>>, <<97>>, <<79, 119, 79>>, <<233>>, <<97, 128583>>,
     <<72, 101, 108, 108, 111, 32, 87, 111, 114, 108, 100, 33>>}

\* Length prefixes: the small ones, those at the edge of the isize::MAX test,
\* and one of 2^31.
FTextLens ==
    {NatToU32(n) : n \in 0..(MaxBody + 1)}
    \cup {<<255, 255, 255, 255>>, <<255, 255, 255, 254>>, <<128, 0, 0, 0>>}

FTextBodyBytes == {0, 97}

\* A length prefix followed by bytes of any content.
CraftedFTexts ==
    {[len |-> l, raw_bytes |-> bd] :
        l \in FTextLens, bd \in SeqsUpTo(FTextBodyBytes, MaxBody)}

InitFTextEncode ==
    /\ pc = "FText_write"
    /\ self \in {FText_from(s) : s \in FTextStrings}
    /\ buf = <<>>
    /\ cursor = 0
    /\ locals = NoLocals
    /\ result = None

InitFTextCrafted ==
    /\ pc = "FText_read"
    /\ self \in CraftedFTexts
    /\ buf = write_u32_LE(self.len) \o self.raw_bytes
    /\ cursor = 0
    /\ locals = NoLocals
    /\ result = None

InitFText == InitFTextEncode \/ InitFTextCrafted

NextFText == FT_Write \/ FT_Read

SpecFText == InitFText /\ [][NextFText]_vars

(***************************************************************************)
(* Claims about FText                                                      *)
(***************************************************************************)
IsFText == DOMAIN self = {"raw"}

IsCraftedFText == DOMAIN self = {"len", "raw_bytes"}

\* C21: FText::write emits the length of the raw buffer, terminator included,
\* as a little-endian u32, then the raw bytes; FText::read returns a blob only
\* when the last of the declared bytes is 0x00, and then the blob is the
\* declared bytes; an FText built from a string is read back equal, with all
\* the bytes written consumed.
C21_FTextRoundTrip ==
    /\ (pc \in {"FText_read", "FText_done"} /\ IsFText) =>
           /\ SubSeq(buf, 1, 4) = Reverse(NatToU32(Len(buf) - 4))
           /\ SubSeq(buf, 5, Len(buf)) = self.raw
           /\ buf[Len(buf)] = 0
    /\ (pc = "FText_done" /\ IsFText) =>
           result = Ok(self) /\ cursor = Len(buf)
    /\ (pc = "FText_done" /\ IsCraftedFText /\ result.ok) =>
           /\ cursor >= 5
           /\ cursor = 4 + U32ToNat(self.len)
           /\ buf[cursor] = 0
           /\ result.val = [raw |-> SubSeq(buf, 5, cursor)]

C21_Witness ==
    /\ pc = "FText_done"
    /\ self = FText_from(<<97, 128583>>)
    /\ buf = <<6, 0, 0, 0, 97, 240, 159, 153, 135, 0>>
    /\ result = Ok(self)

\* C29: FText::read on a blob whose length prefix is 0 returns an error: it
\* does not panic and returns no blob.
C29_ZeroLengthRejected ==
    (pc = "FText_done" /\ IsCraftedFText /\ self.len = <<0, 0, 0, 0>>) =>
        ~result.ok /\ result.err # "panic"

(***************************************************************************)
(* Further claims about the names batch                                    *)
(***************************************************************************)
\* C22: for a wide header of n >= 1 units NamesBatch::read reads n - 1 units
\* and a zero unit, and the string of that entry is the UTF-16 decoding of
\* exactly those n - 1 units.  The units of a crafted entry are all "a".
C22_WideStringExact ==
    (pc = "NamesBatch_done" /\ IsCrafted(self) /\ result.ok) =>
        \A i \in 1..Len(self.entries) :
            self.entries[i].header.is_utf16 =>
                result.val.strings[i] = Repeat(97, self.entries[i].header.len - 1)

\* C25: NamesBatch::write on a batch whose hashes, headers and strings are not
\* of one length does not complete, and nothing is written: no sequence is cut
\* or padded to fit.
C25_MismatchRefused ==
    (IsBatch(self) /\ ~(Len(self.hashes) = Len(self.headers)
                        /\ Len(self.headers) = Len(self.strings))) =>
        /\ buf = <<>>
        /\ pc \in {"NamesBatch_write", "NamesBatch_done"}
        /\ pc = "NamesBatch_done" => result = Err("panic")

C25_Witness ==
    /\ pc = "NamesBatch_done"
    /\ IsBatch(self)
    /\ Len(self.hashes) = 2 /\ Len(self.headers) = 2 /\ Len(self.strings) = 1
    /\ result = Err("panic")
    /\ buf = <<>>

\* C27: for every batch NamesBatch::write accepts, the total string-byte count
\* it writes is the sum of n_bytes() over the headers and is the number of
\* bytes of the string blob it writes, so the cross-checks of NamesBatch::read
\* pass on what was written, wide headers included.
C27_TotalMatchesHeaders ==
    (pc # "NamesBatch_write" /\ IsBatch(self) /\ NamesBatch_write_asserts(self)) =>
        /\ U32ToNat(Reverse(SubSeq(buf, 5, 8)))
              = SumSeq([i \in 1..Len(self.headers) |-> n_bytes(self.headers[i])])
        /\ U32ToNat(Reverse(SubSeq(buf, 5, 8)))
              = Len(buf) - StringsStart(Len(self.strings))
        /\ pc = "NamesBatch_done" =>
              result.err \notin {"MoreStringBytesThanExpected", "StringBytesMismatch"}

(***************************************************************************)
(* Further claims about the string pools of the store data                 *)
(***************************************************************************)
\* C23: a store whose wide pool is not empty is written with each wide string
\* as its UTF-16 units and one 16-bit zero, with offsets and a byte total that
\* describe those bytes, and StoreData::read of the result returns the
\* original wide strings.
C23_WidePoolRoundTrip ==
    (pc = "StoreData_done" /\ IsStore(self) /\ self.wide_strings # <<>>) =>
        /\ result.ok
        /\ result.val.wide_strings = self.wide_strings

\* C24: for the narrow pool StoreData::write emits the offsets o_1 = 0 and
\* o_(i+1) = o_i + byte_len(s_i) + 1 in order, declares as narrow byte total
\* the sum of byte_len(s_i) + 1, and writes a narrow blob of exactly that many
\* bytes: each string's bytes and one 0x00.
C24_NarrowPoolWritten ==
    [][(pc = "StoreData_write" /\ IsStore(self)) =>
          LET added == SubSeq(buf', Len(buf) + 1, Len(buf'))
              word(i) == U32ToNat(Reverse(SubSeq(added, 4 * i - 3, 4 * i)))
              n == Len(self.ansi_strings)
              byte_len(i) == Len(as_bytes(self.ansi_strings[i]))
              total == SumSeq([i \in 1..n |-> byte_len(i) + 1])
          IN /\ locals.stage = "counts" => word(5) = n /\ word(7) = total
             /\ locals.stage = "ansi_string_offsets" =>
                   /\ Len(added) = 4 * n
                   /\ \A i \in 1..n :
                         word(i) = IF i = 1 THEN 0
                                   ELSE word(i - 1) + byte_len(i - 1) + 1
             /\ locals.stage = "ansi_strings" =>
                   /\ Len(added) = total
                   /\ added = Concat([i \in 1..n |->
                                        as_bytes(self.ansi_strings[i]) \o <<0>>])
      ]_vars

\* C24 witness: the store of "é" and "a" alone, written: offsets 0 and 3, a
\* total of 5, the blob C3 A9 00 61 00.
C24_Witness ==
    /\ pc = "StoreData_read"
    /\ IsStore(self)
    /\ self.ansi_strings = <<<<233>>, <<97>>>>
    /\ SubSeq(buf, 29, 32) = <<5, 0, 0, 0>>
    /\ SubSeq(buf, 45, 57) = <<0, 0, 0, 0, 3, 0, 0, 0, 195, 169, 0, 97, 0>>

\* C28: whenever StoreData::read succeeds, the bytes it took from the narrow
\* blob are as many as the declared narrow byte total: the first offset of a
\* pool that is not empty is 0, and the total of an empty pool is 0.
C28_NarrowTotalConsumed ==
    (pc = "StoreData_done" /\ IsCraftedStore(self) /\ self.pool = "ansi"
     /\ result.ok) =>
        /\ Len(buf) - 4 - AnsiBlobStart(Len(self.offsets)) = self.total
        /\ self.offsets # <<>> => self.offsets[1] = 0
        /\ self.offsets = <<>> => self.total = 0

(***************************************************************************)
(* Arrays whose elements fail to decode                                    *)
(***************************************************************************)
MaxTexts == 3

\* What may stand where an element of text_data is expected, with the error
\* FText::read returns on it ("" for none) and the bytes it takes before it
\* returns: "", "a", a blob of one byte and a blob of two bytes without
\* terminator, a blob of no byte.
TextImages ==
    {[bytes |-> <<1, 0, 0, 0, 0>>, err |-> "", taken |-> 5],
     [bytes |-> <<2, 0, 0, 0, 97, 0>>, err |-> "", taken |-> 6],
     [bytes |-> <<1, 0, 0, 0, 97>>, err |-> "FTextNotTerminated", taken |-> 5],
     [bytes |-> <<2, 0, 0, 0, 0, 97>>, err |-> "FTextNotTerminated", taken |-> 6],
     [bytes |-> <<0, 0, 0, 0>>, err |-> "panic", taken |-> 4]}

\* A store whose only array is text_data, holding the images in order.
TextStoreBytes(images) ==
    Reverse(START_MAGIC)
    \o Reverse(N(0)) \o Reverse(N(0)) \o Reverse(N(0))
    \o Reverse(N(Len(images)))
    \o Reverse(N(0)) \o Reverse(N(0)) \o Reverse(N(0)) \o Reverse(N(0))
    \o Reverse(N(0)) \o Reverse(N(0))
    \o Concat([i \in 1..Len(images) |-> images[i].bytes])
    \o Reverse(END_MAGIC)

\* A names batch of two narrow entries, cut after its first kept bytes.
CutBatches ==
    {[entries |-> <<[header |-> SerializedNameHeader(FALSE, 2), terminated |-> TRUE],
                    [header |-> SerializedNameHeader(FALSE, 1), terminated |-> TRUE]>>,
      expected_string_bytes |-> 3,
      hash_version |-> <<0, 0, 0, 0, 222, 173, 190, 239>>,
      kept |-> k] : k \in 0..39}

InitArrayStore ==
    /\ pc = "StoreData_read"
    /\ self \in {[images |-> im] : im \in SeqsUpTo(TextImages, MaxTexts)}
    /\ buf = TextStoreBytes(self.images)
    /\ cursor = 0
    /\ locals = StoreData_read_locals
    /\ result = None

InitArrayNames ==
    /\ pc = "NamesBatch_read"
    /\ self \in CutBatches
    /\ buf = SubSeq(CraftedBatchBytes(self), 1, self.kept)
    /\ cursor = 0
    /\ locals = NoLocals
    /\ result = None

InitArray == InitArrayStore \/ InitArrayNames

NextArray == SD_ReadSection \/ NB_ReadPrefix \/ NB_ReadString \/ NB_Finish

SpecArray == InitArray /\ [][NextArray]_vars

IsTextStore == DOMAIN self = {"images"}

IsCutBatch == "kept" \in DOMAIN self

\* The index of the first image FText::read fails on, 0 when there is none.
FirstFailing(images) ==
    IF \A i \in 1..Len(images) : images[i].err = "" THEN 0
    ELSE CHOOSE j \in 1..Len(images) :
            /\ images[j].err # ""
            /\ \A i \in 1..(j - 1) : images[i].err = ""

\* C26: in an array read with read_array the first element whose decoder fails
\* ends the decode: the reader stays where that decoder left it, no later
\* element and no later section is read, and StoreData::read and
\* NamesBatch::read return that error and no value.
C26_FirstFailureEnds ==
    /\ (pc = "StoreData_done" /\ IsTextStore) =>
           LET j == FirstFailing(self.images)
               before == SumSeq([i \in 1..(j - 1) |-> Len(self.images[i].bytes)])
           IN IF j = 0
              THEN result.ok /\ Len(result.val.text_data) = Len(self.images)
              ELSE /\ result = Err(self.images[j].err)
                   /\ cursor = 44 + before + self.images[j].taken
                   /\ locals.done = <<"begin_magic", "counts">>
    /\ (pc = "NamesBatch_done" /\ IsCutBatch /\ self.kept \in 16..35) =>
           /\ result = Err("UnexpectedEof")
           /\ locals = NoLocals
           /\ cursor <= self.kept

C26_Witness ==
    /\ pc = "StoreData_done"
    /\ IsTextStore
    /\ Len(self.images) = 3
    /\ self.images[1].err = ""
    /\ self.images[2].err = "FTextNotTerminated"
    /\ self.images[3].err = ""
    /\ result = Err("FTextNotTerminated")
    /\ cursor = 44 + Len(self.images[1].bytes) + Len(self.images[2].bytes)

\* C30: for every header (is_utf16, len), len any 16-bit value, bit 7 of the
\* first byte SerializedNameHeader::write emits is the flag is_utf16.
C30_FlagBitIsWidth ==
    pc # "SerializedNameHeader_write" =>
        (buf[1] \div 128 = 1) = self.is_utf16

====
